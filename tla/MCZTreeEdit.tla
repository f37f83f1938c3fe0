---------------------------- MODULE MCZTreeEdit ----------------------------
(* ZTreeEdit with loads on demand: an empty parent to be loaded, alone,     *)
(* beside or below other nodes, and nodes to drag together.  Where there    *)
(* are two nodes, the one may be asked for again while it loads, after it   *)
(* has loaded, and after a refresh while an old request is on its way.      *)
EXTENDS ZTreeEdit

Row(id, pId, flags) == [id |-> id, pId |-> pId, flags |-> flags]

Starts ==
    {<<>>,
     <<Row(1, 0, {"isParent"})>>,
     <<Row(1, 0, {}), Row(2, 1, {"isParent"})>>,
     <<Row(1, 0, {}), Row(2, 0, {}), Row(3, 0, {"isParent"})>>}
=============================================================================
