----------------------------- MODULE MCSources -----------------------------
(***************************************************************************)
(* order (order.stm) uses a fragment of its own and one of lib.stm, and    *)
(* invokes lib.stm's job; lib.stm imports base.stm.  Every file comes in   *)
(* several editions, with and without a new version.                       *)
(***************************************************************************)
EXTENDS Sources

Lit(name) == [tag |-> "lit", arg |-> name]
Name(name) == [tag |-> "name", arg |-> name]
Dotted(name) == [tag |-> "dotted", arg |-> name]
Pred(atoms) == [tag |-> "pred", pred |-> atoms]
Ref(sort, name) == [sort |-> sort, name |-> name]
Import(path, alias) == [sort |-> "import", path |-> path, alias |-> alias]
Decl(sort, name, to) == [sort |-> sort, name |-> name, to |-> to]
Fragment(name, params, body) == [sort |-> "fragment", name |-> name, params |-> params, body |-> body]
Machine(name, version, body) == [sort |-> "machine", name |-> name, version |-> version, body |-> body]
Use(fragment, args, alias) == [fragment |-> fragment, args |-> args, alias |-> alias]

Charge(module) == Decl("bind", <<"charge">>, Lit(<<module, "charge">>))
Step == Fragment(<<"Step">>, <<"work">> :> "action" @@ <<"done">> :> "state" @@ <<"on">> :> "event" @@ <<"when">> :> "guard" @@ <<"max">> :> "value",
                 [refs |-> {Ref("action", <<"work">>), Ref("state", <<"done">>), Ref("event", <<"on">>),
                            Ref("guard", <<"when">>), Ref("value", <<"max">>)}, uses |-> <<>>])
(* a fragment that passes its own parameters on *)
Retry(max) == Fragment(<<"Retry">>, <<"try">> :> "action" @@ <<"out">> :> "state" @@ <<"ev">> :> "event" @@ <<"if">> :> "guard",
  [refs |-> {Ref("state", <<"out">>)},
   uses |-> <<Use(<<"Step">>, <<"work">> :> Name(<<"try">>) @@ <<"done">> :> Name(<<"out">>) @@ <<"on">> :> Name(<<"ev">>)
                              @@ <<"when">> :> Name(<<"if">>) @@ <<"max">> :> Lit(<<max>>), <<>>)>>])
Order(version, more) == Machine(<<"order">>, version,
  [refs |-> {Ref("action", <<"charge">>), Ref("guard", <<"ok">>)},
   uses |-> <<Use(<<"lib", "Retry">>, <<"try">> :> Name(<<"charge">>) @@ <<"out">> :> Name(<<"Paid">>)
                    @@ <<"ev">> :> Name(<<"Result">>) @@ <<"if">> :> Pred({Name(<<"ok">>), Lit(<<"n", "1">>)}), <<>>)>> \o more])
Again == Use(<<"lib", "Retry">>, <<"try">> :> Dotted(<<"shop", "refund">>) @@ <<"out">> :> Name(<<"Paid">>)
               @@ <<"ev">> :> Name(<<"Result">>) @@ <<"if">> :> Name(<<"ok">>), <<"Back">>)
Other == Machine(<<"other">>, 0, [refs |-> {Ref("action", <<"charge">>)}, uses |-> <<>>])

Lib == Import("lib", <<"lib">>)
Base == Import("base", <<>>)
Order1 == <<Lib, Step, Charge("shop"), Order(0, <<>>)>>
Order1Edited == <<Lib, Step, Charge("bank"), Order(0, <<>>)>>              \* and not bumped
Order2 == <<Lib, Step, Charge("bank"), Order(2, <<>>)>>
Order2Edited == <<Lib, Base, Step, Charge("shop"), Order(2, <<Again>>), Other>>
Job(version, refs) == Machine(<<"job">>, version, [refs |-> {Ref("action", <<"work">>)} \cup refs, uses |-> <<>>])
Lib1 == <<Base, Retry("3"), Job(0, {})>>
Lib1Edited == <<Base, Retry("5"), Job(0, {})>>
Lib2 == <<Base, Retry("3"), Job(2, {Ref("guard", <<"ok">>)})>>
Bases(module) == <<Decl("guard", <<"ok">>, {Lit(<<"x">>)}), Decl("bind", <<"work">>, Lit(<<module, "work">>)),
                   Decl("event", <<"Result">>, Lit(<<"s">>))>>
Tree(o, l, b) == ("order" :> o) @@ ("lib" :> l) @@ ("base" :> Bases(b))
Trees ==
  [first |-> Tree(Order1, Lib1, "shop"), edited |-> Tree(Order1Edited, Lib1, "shop"),
   libEdited |-> Tree(Order1, Lib1Edited, "shop"), baseEdited |-> Tree(Order1, Lib1, "depot"),
   bumped |-> Tree(Order2, Lib1, "shop"), bumpedLib |-> Tree(Order2, Lib2, "shop"),
   again |-> Tree(Order2Edited, Lib2, "depot"), unbuilt |-> "order" :> Order1]
(* lib.stm's import of base.stm moved to the end of order.stm's *)
TreesMoved ==
  [first |-> Tree(Order1, Lib1, "shop"),
   moved |-> Tree(<<Lib, Step, Charge("shop"), Base, Order(0, <<>>)>>, <<Retry("3"), Job(0, {})>>, "shop")]
Directory == <<"order">>
Symmetry == Permutations(Worker)
=============================================================================
