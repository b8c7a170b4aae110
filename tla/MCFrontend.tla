----------------------------- MODULE MCFrontend -----------------------------
(***************************************************************************)
(* File systems for the model-checking runs of Frontend.                   *)
(***************************************************************************)
EXTENDS FrontendProperties

CONSTANTS f1, f2, f3

K(kind) == [kind |-> kind]
U(f) == [kind |-> "use", file |-> f]
In(f) == [kind |-> "include", file |-> f]

AllFiles == {f1, f2, f3}

\* A root file of a line break and at most two more lexemes, and two files that use
\* and include each other and the root.
Everything ==
  {(f1 :> <<K("newline")>> \o x) @@ (f2 :> y) @@ (f3 :> z) :
     x \in BoundedSeq({K("statement"), K("error"), U(f2), U(f3), In(f2), In(f3)}, 2),
     y \in BoundedSeq({K("statement"), K("newline"), U(f1), In(f1), In(f3)}, 2),
     z \in BoundedSeq({K("statement"), U(f2), In(f1)}, 1)}

\* include <f2> followed by a statement, where f2 holds only a line break.
EmptyInclude ==
  {(f1 :> <<In(f2), K("statement")>>) @@ (f2 :> <<K("newline")>>) @@ (f3 :> <<>>)}

\* At the end of an included file the scanner goes on in the file that includes it
\* (README.md:60, scanner_helper.cpp:101).
IncludesEnd == [][status' = "ub" => Upcoming("include")]_vars

=============================================================================
