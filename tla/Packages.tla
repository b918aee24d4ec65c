------------------------------ MODULE Packages ------------------------------
(***************************************************************************)
(* The package manager of UwUOS: pkg test, list and install of kernel.c,   *)
(* over the file system of FileSystem and the requests of HttpClient, and  *)
(* the program server.py that answers them.  Of a request only its         *)
(* contract is kept, HttpClient!ResultIsPrefix: the beginning of the       *)
(* answer, or nothing.  The shell runs one command at a time; between the  *)
(* two requests of an install the server's packages may change.            *)
(***************************************************************************)
EXTENDS FileSystem, SequencesExt

CONSTANTS Pkgs, Versions,           \* packages, and what may be published of each
          JsonSize, SourceSize,     \* bytes of a version's package.json and source
          META_LEN, BUFFER_SIZE,    \* sizeof(meta_resp); of src_resp and the client's buffer
          MaxCommands               \* bound: commands typed

ASSUME PackagesAssumption ==
  /\ Versions \subseteq Nat \ {0}
  /\ JsonSize \in [Versions -> Nat \ {0}] /\ SourceSize \in [Versions -> Nat]
  /\ META_LEN \in Nat \ {0} /\ BUFFER_SIZE \in Nat \ {0} /\ BUFFER_SIZE <= FS_MAX_FILESIZE
  /\ MaxCommands \in Nat

VARIABLES pc,           \* "meta", "source": file system calls after a request
          pkg, entry,   \* the package being installed; the path its entry gives
          calls,        \* the file system calls still to make
          said,         \* the command's last words
          published,    \* at the server: each package's version, 0 for none
          served,       \* what the server held when it answered, by file; for InstalledIsServed
          complete,     \* both answers arrived whole
          overgrown,    \* some write was none that CarefulWrite allows, or went behind the array
          commands

shell == << pc, pkg, entry, calls, said, served, complete, commands >>
pkgVars == << vars, shell, published, overgrown >>

Base(p)      == << "dir", p >>
SrcDir(p)    == << "src", p >>
Meta(p)      == << "package.json", p >>
Source(p)    == << "main.uwu", p >>
CutSource(p) == << "main", p >>         \* when the entry's last characters are missing
NoEntry      == << "none" >>

PkgFiles == UNION {{Meta(p), Source(p), CutSource(p)} : p \in Pkgs}
PkgDirs  == UNION {{Base(p), SrcDir(p)} : p \in Pkgs}

Json(p, v) == [i \in 1..JsonSize[v] |-> << "json", p, v, i >>]
Code(p, v) == [i \in 1..SourceSize[v] |-> << "code", p, v, i >>]

ASSUME PackageNames ==
  /\ PkgFiles \subseteq FileNames /\ PkgDirs \subseteq DirNames
  /\ FileNames \cap DirNames = {}

-----------------------------------------------------------------------------
(* server.py: handle_client and http_response.  The header's first part ends *)
(* before the status, the second one with it, the third with the empty line. *)

Header(status) == << << "http" >>, << status >>, << "blank" >> >>
HEADER == 3
Found(body) == Header("200") \o body
NotFound    == Header("404") \o << << "page" >> >>

ASSUME PackageBytes ==
  /\ Header("200") \in Seq(Bytes)
  /\ \A p \in Pkgs, v \in Versions : Json(p, v) \in Seq(Bytes) /\ Code(p, v) \in Seq(Bytes)

FileAnswer(name) ==
  IF \E p \in Pkgs : published[p] # 0 /\ name \in {Meta(p), Source(p)}
  THEN LET p == CHOOSE q \in Pkgs : name \in {Meta(q), Source(q)}
       IN  Found(IF name = Meta(p) THEN Json(p, published[p]) ELSE Code(p, published[p]))
  ELSE NotFound

Publish(p) ==
  /\ \E v \in Versions \cup {0} : published' = [published EXCEPT ![p] = v]
  /\ UNCHANGED << vars, shell, overgrown >>

-----------------------------------------------------------------------------
(* http_request: the answer, cut anywhere, when the caller's buffer takes it. *)
Responses(answer, max_len) ==
  {<< >>} \cup {SubSeq(answer, 1, n) : n \in 1..(IF Len(answer) < max_len THEN Len(answer)
                                                 ELSE max_len - 1)}

(* response[9] = '2'; before the tenth character it is what the stack held.  *)
StatusAny(r) == {r # << >>}
Status(r) == IF Len(r) = 1 THEN BOOLEAN ELSE {r # << >> /\ r[2] = << "200" >>}

BodyAll(r) == r
Body(r) == IF Len(r) < HEADER THEN r ELSE SubSeq(r, HEADER + 1, Len(r))

(* The entry's name starts in the second byte of package.json and ends in    *)
(* the third; one without an entry is shorter.                               *)
EntryOf(p, r) ==
  CASE Len(r) < HEADER + 2 -> NoEntry
    [] Len(r) = HEADER + 2 -> CutSource(p)
    [] OTHER               -> Source(p)

Idle == pc = "idle" /\ Intact /\ commands < MaxCommands /\ commands' = commands + 1

(* The file system calls after the last request are made. *)
CallsMade(at) == pc = at /\ Intact /\ calls = << >>

Says(words) == pc' = "idle" /\ said' = words /\ calls' = << >>

PkgTest ==
  /\ Idle
  /\ \E r \in Responses(Found(<< << "pong" >> >>), META_LEN) :
       Says(IF r # << >> /\ Head(r) = << "200" >> THEN "ok" ELSE "failed")
  /\ UNCHANGED << vars, pkg, entry, published, served, complete, overgrown >>

PkgList ==
  /\ Idle
  /\ \E r \in Responses(Found(<< << "names" >> >>), META_LEN) : \E ok \in Status(r) :
       Says(IF r = << >> THEN "connection failed"
            ELSE IF ok THEN "packages" ELSE "server error")
  /\ UNCHANGED << vars, pkg, entry, published, served, complete, overgrown >>

Dir(name) == [dir |-> TRUE, name |-> name, bytes |-> << >>]
Write(name, bytes) == [dir |-> FALSE, name |-> name, bytes |-> bytes]

FetchMeta(p) ==
  /\ Idle
  /\ pkg' = p
  /\ LET answer == FileAnswer(Meta(p))
     IN  \E r \in Responses(answer, META_LEN) : \E ok \in Status(r) :
           /\ complete' = (r = answer)
           /\ entry' = EntryOf(p, r)
           /\ served' = [meta |-> SubSeq(answer, HEADER + 1, Len(answer)), source |-> << >>]
           /\ IF ok
              THEN /\ pc' = "meta" /\ said' = "Installing"
                   /\ calls' = << Dir(PackagesDir), Dir(Base(p)), Write(Meta(p), Body(r)) >>
                               \o IF entry' = NoEntry THEN << >> ELSE << Dir(SrcDir(p)) >>
              ELSE Says("failed to fetch package.json")
  /\ UNCHANGED << vars, published, overgrown >>

FetchSource ==
  /\ CallsMade("meta") /\ entry # NoEntry
  /\ LET answer == FileAnswer(entry)
     IN  \E r \in Responses(answer, BUFFER_SIZE) : \E ok \in Status(r) :
           /\ complete' = (complete /\ r = answer)
           /\ served' = [served EXCEPT !.source = SubSeq(answer, HEADER + 1, Len(answer))]
           /\ IF ok
              THEN /\ pc' = "source" /\ calls' = << Write(entry, Body(r)) >> /\ UNCHANGED said
              ELSE Says("failed to fetch source")
  /\ UNCHANGED << vars, pkg, entry, commands, published, overgrown >>

InvalidPackage ==
  /\ CallsMade("meta") /\ entry = NoEntry
  /\ Says("invalid package.json (no entry)")
  /\ UNCHANGED << vars, pkg, entry, served, complete, commands, published, overgrown >>

Installed ==
  /\ CallsMade("source")
  /\ Says("installed")
  /\ UNCHANGED << vars, pkg, entry, served, complete, commands, published, overgrown >>

(* The result of fs_create and fs_write is not looked at. *)
FsCall ==
  LET c == Head(calls)
  IN  /\ Intact /\ calls # << >> /\ calls' = Tail(calls)
      /\ IF c.dir
         THEN IF CanCreate(c.name) THEN fs_create(c.name, TRUE) ELSE UNCHANGED vars
         ELSE IF fs_exists(c.name) \/ CanCreate(c.name) THEN fs_write(c.name, c.bytes)
              ELSE UNCHANGED vars
      /\ overgrown' = (overgrown \/ spilled' \/ (~c.dir /\ ~CarefulWrite(c.name, Len(c.bytes))))
      /\ UNCHANGED << pc, pkg, entry, said, published, served, complete, commands >>

Rm(name) ==
  /\ Idle
  /\ fs_delete(name)
  /\ Says("deleted")
  /\ UNCHANGED << pkg, entry, published, served, complete, overgrown >>

PkgInit ==
  /\ Init
  /\ pc = "idle" /\ pkg \in Pkgs /\ entry = NoEntry /\ calls = << >> /\ said = ""
  /\ published \in [Pkgs -> Versions \cup {0}]
  /\ served = [meta |-> << >>, source |-> << >>]
  /\ complete = FALSE /\ overgrown = FALSE /\ commands = 0

PkgNext ==
  \/ PkgTest \/ PkgList \/ FetchSource \/ InvalidPackage \/ Installed \/ FsCall
  \/ \E p \in Pkgs : FetchMeta(p) \/ Publish(p)
  \/ \E name \in PkgFiles : Rm(name)

PkgSpec == PkgInit /\ [][PkgNext]_pkgVars

-----------------------------------------------------------------------------
(* Properties *)

ShownOf(name) == Shown(files[First(fs_find(name))])

(* When the shell says "installed" although it looks at no result of the     *)
(* file system, and both answers came whole, then package.json and source    *)
(* are there as the server sent them, or the table is full.                  *)
InstalledIsServed ==
  (said = "installed" /\ complete /\ ~overgrown) =>
    /\ fs_exists(Meta(pkg)) => ShownOf(Meta(pkg)) = served.meta
    /\ fs_exists(entry) => ShownOf(entry) = served.source
    /\ (fs_exists(Meta(pkg)) /\ fs_exists(entry)) \/ num_files = FS_MAX_FILES

(* The error page of the server is never kept as a package's file, and a     *)
(* file has no header before its bytes: it holds bytes of one version of     *)
(* what its name says, or of a header that was cut.                          *)
StoredAsNamed ==
  ~overgrown =>
    \A i \in Used : LET name == files[i].name
                        s == Shown(files[i])
                    IN  name \in PkgFiles =>
      \/ IsPrefix(s, << << "http" >>, << "200" >> >>)
      \/ \E p \in Pkgs, v \in Versions :
           \/ name = Meta(p) /\ IsPrefix(s, Json(p, v))
           \/ name = Source(p) /\ IsPrefix(s, Code(p, v))

(* An install changes no file of another package.                            *)
OthersKept ==
  [][\A i \in Used :
       LET f == files[i]
       IN  (f.name \in PkgFiles /\ f.name[2] # pkg' /\ ~overgrown' /\ said' # "deleted")
             => /\ files'[i] = f
                /\ \A k \in Extent(f) : data'[k] = data[k]]_pkgVars
=============================================================================
