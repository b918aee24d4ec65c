------------------------------ MODULE MCPaths ------------------------------
(* Arguments in every form the code looks at. *)
EXTENDS Paths

MCArgs ==
  { << "a" >>, << ".." >>, << "." >>, << "/" >>, << "/", "a" >>, << "a", "/" >>,
    << "a", "/", "b" >>, << "a", "/", "/", "b" >> }
=============================================================================
