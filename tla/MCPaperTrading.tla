--------------------------- MODULE MCPaperTrading ---------------------------
(* The client ids of the handlers, and the entries they may propose at the   *)
(* marks 20 and 30: longs that can be added to at a higher leverage with a   *)
(* nearer stop or a farther target, and a short to reverse into.             *)
EXTENDS PaperTrading

ClientIds == (1..MaxHandlers) \X ({"entry"} \cup Roles)

Entry(side, leverage, stop, take) ==
  [side |-> side, size |-> 2, leverage |-> leverage,
   protective |-> [stop |-> stop, take |-> take]]

Entries == {Entry("long", 1, 10, 40), Entry("long", 3, 20, 40),
            Entry("long", 2, 10, 50), Entry("long", 1, 10, 30),
            Entry("short", 1, 30, 10)}
=============================================================================
