----------------------------- MODULE StreamContract -----------------------------
(***************************************************************************)
(* What the client of a streamed answer is promised: a chat stream ends    *)
(* with the sentinel [DONE], once and last, after a failure notice if the  *)
(* relay failed; a Responses stream has nothing of the relay's own in it.  *)
(* Only a client that has left may find its stream without an end.         *)
(***************************************************************************)
EXTENDS Integers, Sequences

CONSTANTS Sentinel, Failure  \* the two frames that are the relay's own

VARIABLES
  mode,     \* "rewrite" for chat completions, "pass" for responses
  written,  \* the frames written for the client
  over,     \* the stream has ended
  gone      \* the client has left

vars == <<mode, written, over, gone>>

Has(f) == \E j \in DOMAIN written : written[j] = f

Init == mode \in {"rewrite", "pass"} /\ written = <<>> /\ ~over /\ ~gone

\* One more frame; the relay's own ones close the stream.
Write ==
  /\ ~over /\ ~Has(Sentinel)
  /\ Len(written') = Len(written) + 1
  /\ SubSeq(written', 1, Len(written)) = written
  /\ LET f == written'[Len(written')]
     IN /\ f \in {Sentinel, Failure} => mode = "rewrite"
        /\ Has(Failure) => f = Sentinel

\* The end of the stream, which may come with its last frame.
Close ==
  /\ over'
  /\ mode = "rewrite" /\ ~gone => Len(written') > 0 /\ written'[Len(written')] = Sentinel

Leave == ~gone /\ gone' /\ UNCHANGED <<mode, written, over>>

Next ==
  \/ Write /\ (Close \/ UNCHANGED over) /\ UNCHANGED <<mode, gone>>
  \/ ~over /\ Close /\ UNCHANGED <<mode, written, gone>>
  \/ Leave

Spec == Init /\ [][Next]_vars
=============================================================================
