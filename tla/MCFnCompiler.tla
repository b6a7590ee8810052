--------------------------- MODULE MCFnCompiler -----------------------------
(* Programs for FnCompiler: a parameter p, variables x and y that every path *)
(* initializes before it reads them, and the bodies below filled in every    *)
(* way.                                                                      *)
EXTENDS FnCompiler

p == 0
x == 1
y == 2
i == 3
Lit(n) == <<"lit", n>>
Var(v) == <<"var", v>>

Values1 == {Lit(1), Var(p), <<"call", Use, Var(p), Lit(0)>>}
Conditions == {<<"less", Var(p), Lit(1)>>, <<"equal", Var(x), Lit(1)>>, Var(x),
               <<"call", Use, Var(x), Var(p)>>}
Changes(v) == {<<"set", v, Lit(2)>>, <<"bump", v>>, <<"set", v, <<"add", Var(v), Lit(1)>>>>,
               <<"set", v, <<"call", Small, Var(v), Var(p)>>>>}
Reads == {<<"do", <<"call", Use, Var(x), Lit(1)>>>>, <<"do", <<"ref", Look, x>>>>,
          <<"do", <<"spread", Var(x), Var(p)>>>>}
Results == {<<"return", <<"add", Var(x), Lit(1)>>>>, <<"return", <<"div", Lit(2), Var(x)>>>>,
            <<"return", <<"and", Var(x), <<"call", Use, Var(p), Var(x)>>>>>>, <<"return", <<"not", Var(x)>>>>,
            <<"return", <<"less", Var(p), Var(x)>>>>}
Leave == {<<"break">>, <<"continue">>, <<"return", Var(x)>>}

If(c, body) == <<<<"if", c>>>> \o body \o <<<<"end">>>>

(* A branch, with and without an alternative.                                *)
Branching ==
  {<<<<"let", x, v>>>> \o If(c, <<s, <<"else">>, t>>) \o <<e>> :
     v \in Values1, c \in Conditions, s \in Changes(x), t \in Reads, e \in Results}

(* A loop left early or not.                                                 *)
Looping ==
  {<<<<"let", x, v>>, h, s>> \o If(d, <<l>>) \o <<r, <<"end">>, e>> :
     v \in Values1 \ {Var(p)},
     h \in {<<"for", c>> : c \in Conditions \ {Var(x)}} \cup {<<"range", i, Lit(0), Lit(2)>>},
     s \in Changes(x), d \in Conditions \ {Var(x)},
     l \in Leave, r \in Reads, e \in {<<"return", Var(x)>>}}

(* A loop in a loop: y begins anew in each round of the outer one.           *)
Nesting ==
  {<<<<"let", x, v>>, <<"range", i, Lit(0), Lit(2)>>, <<"let", y, w>>, <<"for", <<"less", Var(y), Lit(2)>>>>,
     <<"bump", y>>, s, <<"end">>, r, <<"end">>, e>> :
     v \in Values1, w \in Values1 \ {Var(p)}, s \in Changes(x), r \in Reads, e \in Results}

(* A variable lent for writing while another copies it; its value is never   *)
(* known before it is lent.                                                  *)
Lending ==
  {<<<<"let", x, <<"call", Use, Var(p), Lit(0)>>>>, <<"let", y, v>>>>
      \o If(c, <<<<"do", <<"ref", Change, x>>>>>>) \o <<r, e>> :
     v \in {Var(x), <<"add", Var(x), Var(p)>>}, c \in Conditions, r \in Reads,
     e \in {<<"return", <<"call", Small, Var(x), Var(y)>>>>}}

(* A function with the parameter p, or one that asks for p itself.           *)
WithParameter(bodies) == {[params |-> 1, body |-> b] : b \in bodies}
WithoutParameter(bodies) ==
  {[params |-> 0, body |-> <<<<"let", p, <<"call", Use, Lit(1), Lit(0)>>>>>> \o b] : b \in bodies}

Returns(body) == \E k \in 1 .. Len(body) - 1 : body[k][1] = "return"

MCPrograms ==
  LET bodies == Branching \cup Looping \cup Nesting \cup Lending
  IN WithParameter({b \in bodies : ~Returns(b)})
       \cup WithoutParameter({b \in Looping : Returns(b)})

(* A parameter read after an early return of a constant.                     *)
EarlyReturns ==
  WithParameter({If(c, <<<<"return", Lit(2)>>>>) \o <<<<"return", <<"add", Var(p), Lit(1)>>>>>> :
                   c \in {<<"not", Var(p)>>, <<"call", Use, Var(p), Lit(0)>>}})

MCInputs == [args : {<<0>>, <<1>>}, answers : {<<1, 0>>, <<2, 1, 1>>}]
=============================================================================
