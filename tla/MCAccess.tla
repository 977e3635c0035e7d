------------------------------ MODULE MCAccess ------------------------------
(***************************************************************************)
(* An instance of Access: a few projects, each one with a hazard of its    *)
(* own, all of them asked the same queries; a name a project does not      *)
(* declare is an error of the query.                                       *)
(***************************************************************************)
EXTENDS Access

Digit == IntegerType(0, 3, 0)
One == IntegerType(0, 3, 1)
Small(lo, hi) == [min |-> lo, max |-> hi]

Var(name, type) == [name |-> name, type |-> type]
Of(name) == <<Part(name, <<>>)>>
At(name, index) == <<Part(name, index)>>

Row == ArrayType(<<Small(1, 2)>>, Digit, <<>>)
Grid(items) == ArrayType(<<Small(0, 1), Small(1, 3)>>, Digit, items)
Rows(first, second) == <<List([k \in DOMAIN first |-> Literal(first[k])]),
                         List([k \in DOMAIN second |-> Literal(second[k])])>>
Record == StructType([x |-> Digit, b |-> Row])
Records == ArrayType(<<Small(1, 2)>>, Record, <<>>)

Project(variables, program) == [variables |-> variables, program |-> program]
Nothing == Assigns(Of("j"), Value(0))

ij == <<Var("i", One), Var("j", One)>>

Indexing ==
    Project(ij \o <<Var("a", Row), Var("m", Grid(Rows(<<1, 2, 3>>, <<3, 2, 1>>)))>>,
        <<Nothing,
          Assigns(At("a", <<Variable("i")>>), ElementOf(At("m", <<Number(0), Sum("i", 1)>>))),
          Assigns(At("m", <<Sum("i", -1), Variable("i")>>), Call("j", 1, 2)),
          Assigns(At("a", <<Sum("j", 0)>>), Identifier("i"))>>)

CallWritesIndex ==
    Project(ij \o <<Var("a", Row)>>,
        <<Assigns(At("a", <<Sum("i", 0)>>), Call("i", 2, 3)),
          Assigns(At("a", <<Variable("i")>>), Call("i", 1, 2))>>)

\* The call moves the index out of the range of the array.
CallSpoilsIndex ==
    Project(ij \o <<Var("a", Row)>>,
        <<Nothing, Assigns(At("a", <<Variable("i")>>), Call("i", 3, 2))>>)

\* The elements hold less than the variables.
Narrow ==
    Project(ij \o <<Var("a", ArrayType(<<Small(0, 2)>>, IntegerType(0, 1, 1), <<>>))>>,
        <<Nothing,
          Assigns(At("a", <<Variable("i")>>), Identifier("j")),
          Assigns(At("a", <<Number(0)>>), Identifier("i")),
          Assigns(At("a", <<Sum("j", 1)>>), ElementOf(At("a", <<Variable("i")>>)))>>)

Members ==
    Project(ij \o <<Var("s", Record), Var("a", Records)>>,
        <<Nothing,
          Assigns(<<Part("a", <<Sum("i", 0)>>), Part("b", <<Variable("i")>>)>>,
                  ElementOf(<<Part("a", <<Variable("i")>>), Part("x", <<>>)>>)),
          Assigns(<<Part("a", <<Variable("i")>>), Part("x", <<>>)>>, Value(2)),
          Assigns(<<Part("s", <<>>), Part("b", <<Number(2)>>)>>,
                  ElementOf(<<Part("a", <<Number(1)>>), Part("x", <<>>)>>))>>)

TwoSums ==
    Project(ij \o <<Var("m", Grid(<<>>))>>,
        <<Nothing, Assigns(At("m", <<Sum("i", 0), Sum("i", 1)>>), Value(1))>>)

MemberIndex ==
    Project(ij \o <<Var("s", Record), Var("a", Row)>>,
        <<Nothing, Assigns(At("a", <<Member("s")>>), Value(1))>>)

ReadsByVariable ==
    Project(ij \o <<Var("a", Row)>>, <<Assigns(Of("j"), ElementOf(At("a", <<Variable("i")>>)))>>)

Adds ==
    Project(ij \o <<Var("a", Row)>>, <<Assigns(Of("j"), Raised(At("a", <<Number(1)>>), 1))>>)

OutOfRange ==
    Project(ij \o <<Var("a", Row)>>, <<Assigns(At("a", <<Number(3)>>), Value(1))>>)

WithItems(items) == Project(ij \o <<Var("m", Grid(items)), Var("a", Row)>>, <<Nothing>>)

MCProjects ==
    <<Indexing, CallWritesIndex, CallSpoilsIndex, Narrow, Members, TwoSums, MemberIndex, ReadsByVariable, Adds, OutOfRange,
     WithItems(Rows(<<1, 2>>, <<3, 1, 2, 0>>)),
     WithItems(Rows(<<1, 2>>, <<3, 1>>)),
     WithItems(Rows(<<1, 2, 3>>, <<3, 1, 2, 0>>)),
     WithItems(Rows(<<9, 2, 3>>, <<3, 1, 2>>)),
     WithItems(Rows(<<1, 2, 3>>, <<3, 9, 2>>)),
     WithItems(<<Literal(1)>>),
     WithItems(<<List(<<Times(3, 1)>>), List(<<Literal(1), Literal(2), Literal(3)>>)>>)>>

MCQueryLists ==
    {<<Show(Of("i"))>>,
     <<Show(Of("i")), Show(Of("a"))>>,
     <<Set(Of("i"), Value(2))>>,
     <<Set(Of("i"), Value(0))>>,
     <<Set(Of("i"), Value(0)), Set(Of("i"), Identifier("j"))>>,
     <<Set(Of("j"), Value(2)), Set(Of("i"), Value(9)), Set(Of("j"), Value(0))>>,
     <<Set(At("a", <<Number(2)>>), Value(1)), Show(At("a", <<Number(3)>>))>>,
     <<Set(At("a", <<Variable("i")>>), Value(1))>>,
     <<Show(At("a", <<Variable("i")>>)), Set(Of("i"), Value(2))>>,
     <<Set(Of("j"), ElementOf(At("a", <<Number(1)>>)))>>}
=============================================================================
