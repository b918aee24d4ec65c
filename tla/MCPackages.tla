----------------------------- MODULE MCPackages -----------------------------
(* Two packages of three versions: an ordinary one, one with a longer        *)
(* package.json and a source too long for the buffer, one without an entry.  *)
EXTENDS Packages

MCRoot == << "/" >>
MCPackagesDir == << "/packages/" >>
MCDirs == PkgDirs \cup {MCRoot, MCPackagesDir}
MCBytes ==
  {<< "http" >>, << "200" >>, << "404" >>, << "blank" >>, << "page" >>}
    \cup ({"json", "code"} \X Pkgs \X Versions \X (1..5))
MCNoByte == << "zero" >>
MCJsonSize == << 3, 4, 1 >>
MCSourceSize == << 2, 5, 1 >>
=============================================================================
