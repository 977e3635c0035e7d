----------------------------- MODULE MCLinking -----------------------------
(***************************************************************************)
(* Directories for Linking: every way three types of a file can refer to   *)
(* each other, two files that share types and variables, and the files of  *)
(* a session that fails and goes on.                                       *)
(***************************************************************************)
EXTENDS Linking

MCElementary == [n \in {"INT", "SINT"} |-> IF n = "INT" THEN 0..3 ELSE 0..1]

Derived(name, of) == [name |-> name, k |-> "derived", of |-> of, range |-> {}, initial |-> FALSE]
Subrange(name, of, range, initial) ==
  [name |-> name, k |-> "subrange", of |-> of, range |-> range, initial |-> initial]

Empty == [path |-> "", parses |-> TRUE, types |-> <<>>, globals |-> <<>>, functions |-> <<>>, programs |-> <<>>]
File(path, types) == [Empty EXCEPT !.path = path, !.types = types]
GlobalVariable(name, type) == [name |-> name, type |-> type]
Program(name, writes, reads, calls) == [name |-> name, writes |-> writes, reads |-> reads, calls |-> calls]

\* A type of one file: another name, or part of another type.
Shapes(name, others) ==
  {Derived(name, of) : of \in others \union {"INT", "Z"}}
  \union {Subrange(name, of, {0, n}, initial) : of \in others \union {"SINT"}, n \in {1, 2}, initial \in BOOLEAN}
OneFile ==
  {[f |-> [File("f", <<a, b, c>>) EXCEPT !.globals = <<GlobalVariable("g", "A")>>]] :
     a \in Shapes("A", {"A", "B", "C"}), b \in Shapes("B", {"A", "C"}),
     c \in {Derived("C", "INT"), Derived("C", "A"), Subrange("C", "INT", {0, 2}, FALSE),
            Subrange("C", "B", {0, 1}, FALSE)}}

\* Types in either order and over two files.
TwoFiles ==
  {[f |-> File("f", <<a, b>>), e |-> File("e", <<c>>)] :
     a \in {Derived("A", "B"), Derived("A", "C")}, b \in {Derived("B", "C"), Derived("B", "INT")},
     c \in {Derived("C", "INT"), Derived("C", "B"), Derived("A", "INT"), Subrange("C", "INT", {1, 3}, TRUE)}}

Broken(path) == [Empty EXCEPT !.path = path, !.parses = FALSE]
Main(writes, reads, calls) == [Empty EXCEPT !.path = "main", !.programs = <<Program("p", writes, reads, calls)>>]
Library == [Empty EXCEPT !.path = "lib", !.functions = <<[name |-> "fn"]>>,
                         !.globals = <<GlobalVariable("g", "INT"), GlobalVariable("h", "SINT")>>]
More(name) == [Empty EXCEPT !.path = "more", !.globals = <<GlobalVariable(name, "INT")>>]
Sessions ==
  {[main |-> Main(writes, reads, calls), lib |-> Library, more |-> more] :
     <<writes, reads, calls>> \in
       { <<{"g"}, {"h"}, {"fn"}>>, <<{}, {"k"}, {}>>, <<{"k"}, {}, {}>>, <<{}, {}, {"fk"}>>, <<{}, {"x"}, {"fn"}>> },
     more \in {More("k"), More("g"), Broken("more")}}

MCDirectories == OneFile \union TwoFiles \union Sessions
MCGlobalDirectories == Sessions
MCNames == {"p", "g", "k", "x"}
=============================================================================
