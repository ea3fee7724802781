-------------------------------- MODULE MCOps --------------------------------
(***************************************************************************)
(* Two requests to the ops chat: the first may ask anything the gates tell *)
(* apart, the second one asks harmless questions beside it.                *)
(***************************************************************************)
EXTENDS OpsChat, TLC

CONSTANTS r1, r2

LOCAL Sentence ==
  [block |-> FALSE, approval |-> FALSE, allow |-> FALSE, chained |-> FALSE,
   parses |-> TRUE, elevated |-> FALSE, path |-> FALSE, writes |-> FALSE,
   program |-> "other", verb |-> "none"]

LOCAL Ask(topic, text) ==
  [empty |-> FALSE, injections |-> {}, hint |-> FALSE, danger |-> "none",
   topic |-> topic, text |-> text]

LOCAL Disk == Ask("DISK_USAGE", Sentence)

LOCAL Raw(text) == Ask("raw", text)

MCInstructions ==
  (r1 :> { [Ask("unknown", Sentence) EXCEPT !.empty = TRUE],
           [Disk EXCEPT !.injections = {"pattern"}],
           [Disk EXCEPT !.hint = TRUE, !.text.path = TRUE],
           [Disk EXCEPT !.danger = "catalogued"],
           [Disk EXCEPT !.danger = "repository"],
           Ask("PORT_LOOKUP", Sentence),
           Ask("SERVICE_STATUS", [Sentence EXCEPT !.approval = TRUE]),
           Ask("TCM_VERIFY", Sentence),
           Raw(StatusQuery),
           Raw([Query EXCEPT !.block = TRUE]),
           Raw([Query EXCEPT !.chained = TRUE]),
           Raw([Query EXCEPT !.parses = FALSE]),
           Raw([Query EXCEPT !.path = TRUE, !.writes = TRUE]),
           Raw([Query EXCEPT !.program = "other"]) }) @@
  (r2 :> { Disk })

=============================================================================
