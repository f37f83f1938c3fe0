---------------------------- MODULE MCZTreeCheck ----------------------------
(* ZTreeCheck with the setting of role/edit.jsp, the default of zTree and  *)
(* both kinds of radio buttons, on a chain and on a branched tree.         *)
EXTENDS ZTreeCheck

CONSTANTS hidden

Check1(style, type, Y, N) ==
    [style |-> style, radioType |-> type, Y |-> Y, N |-> N,
     nocheckInherit |-> FALSE, chkDisabledInherit |-> FALSE]

PageSettings ==
    {Check1("checkbox", "level", {}, {}),
     Check1("checkbox", "level", {"p", "s"}, {"p", "s"}),
     Check1("checkbox", "level", {"p"}, {"s"}),
     Check1("radio", "level", {}, {}), Check1("radio", "all", {}, {})}

Data(lists, checked, nocheck) ==
    [kids |-> [p \in Place |-> IF p \in DOMAIN lists THEN lists[p] ELSE <<>>],
     checked |-> checked, nocheck |-> nocheck, chkDisabled |-> {}, halfCheck |-> {}]

Chain == (0 :> <<1>>) @@ (1 :> <<2>>) @@ (2 :> <<3>>)
Branched == (0 :> <<1>>) @@ (1 :> <<2, 3>>) @@ (2 :> <<4>>)

Starts == {Data(Chain, {}, {3}), Data(Chain, {3}, {}),
           Data(Branched, {}, {}), Data(Branched, {1, 3}, {})}
=============================================================================
