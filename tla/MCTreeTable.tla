---------------------------- MODULE MCTreeTable ----------------------------
(* TreeTable as resource/list.jsp opens it, with three rows on the page    *)
(* and one more to load.                                                   *)
EXTENDS TreeTable

CONSTANTS n1, n2, n3, n4

PageRows == <<n1, n2, n3>>
=============================================================================
