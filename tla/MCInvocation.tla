---------------------------- MODULE MCInvocation ----------------------------
(* One client with every line a stream may hold, one that gets none.          *)
EXTENDS Invocation, TLC

CONSTANTS c1, c2, a, p

Commands ==
  (c1 :> {[checks |-> <<a>>, path |-> p], [checks |-> <<a, a>>, path |-> NoPath]})
    @@ (c2 :> {[checks |-> <<AnyTool>>, path |-> p], [checks |-> <<>>, path |-> NoPath]})

Events(names) == [kind : {"event"}, name : names]
Data(texts) == [kind : {"data"}, text : texts]
Plain(kinds) == [kind : kinds]

Answers ==
  (c1 :> Plain({"other", "blank", "done"}) \cup Events(Name) \cup Data(Text))
    @@ (c2 :> {})
=============================================================================
