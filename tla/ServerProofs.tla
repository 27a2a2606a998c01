---------------------------- MODULE ServerProofs ----------------------------
(***************************************************************************)
(* Proofs about Server, for any clients, requests, configurations, and     *)
(* whatever the upstream answers.                                          *)
(***************************************************************************)
EXTENDS Server, TLAPS

Places == Suspended \union {"idle", "asked", "heard", "over"}
Heads == [status : Statuses \union {0}, sse : BOOLEAN]
Answers == [status : Statuses \union {0, 200, 400, 401, 404, 500, 502, 503}, sse : BOOLEAN]

\* Where a handler of the data plane can be.
DataPlaces == {"token", "sent", "refresh", "heard", "mirroring", "buffering", "streaming"}
\* Where it has the answer to its last send.
AfterLast == {"heard", "mirroring", "buffering", "streaming"}

\* What has happened to a request by the time its handler is at p: r is what was
\* asked, n how often it was sent, u and a the last answers to and from the handler.
ClientFits(p, r, n, u, a) ==
  /\ p \in {"idle", "asked", "admin"} => n = 0
  /\ p \in DataPlaces => r.route \in DataRoutes
  /\ p = "admin" => r.route \notin DataRoutes
  /\ p = "token" => n = 0 \/ (n = 1 /\ u.status = 401)
  /\ p = "sent" => n \in {1, 2} /\ u.status = 0
  /\ p = "refresh" => n = 1 /\ u.status = 401
  /\ p \in AfterLast => n \in {1, 2} /\ ~(n = 1 /\ u.status = 401)
  /\ p = "mirroring" => /\ u.status # 0
                        /\ r.route = "chat" => u.status # 200
                        /\ r.route = "responses" => u.status >= 400 \/ ~u.sse
  /\ p = "buffering" => u.status # 0 /\ u.status < 400 /\ ~r.stream
  /\ p \notin {"streaming", "over"} => a.status = 0
  /\ (a.status = 200 /\ r.route \in DataRoutes) =>
        /\ a.sse => r.stream
        /\ (r.stream /\ ~a.sse) => r.route = "responses" /\ ~u.sse

Fits(c) == ClientFits(pc[c], request[c], sends[c], up[c], answer[c])

Inv == TypeOK /\ \A c \in Clients : Fits(c)

\* What the step of one client's handler leaves alone.
OthersStay(c) ==
  \A d \in Clients \ {c} :
    /\ pc'[d] = pc[d] /\ request'[d] = request[d] /\ sends'[d] = sends[d]
    /\ up'[d] = up[d] /\ answer'[d] = answer[d]

ClientStep(c) == Ask(c) \/ Handler(c) \/ Leave(c)

-----------------------------------------------------------------------------
(* Types *)

LEMMA StatusesAreInts == Statuses \subseteq Int /\ 0 \notin Statuses
  BY ServerAssumption

LEMMA ClampedInRange == \A n \in Ints : Clamped(n) \in 0..100
  BY MaxIntAssumption DEF Clamped, Ints

LEMMA SaturatingFits ==
  \A n \in Ints : Saturating(n) \in Ints /\ (n >= 0 => Saturating(n) >= n)
  BY MaxIntAssumption DEF Saturating, Ints

\* An observation leaves the gauges in their domain, and a window no shorter in
\* seconds than it was reported in minutes.
LEMMA ObservedSound ==
  ASSUME GaugesAreSound, NEW reading \in Readings
  PROVE  /\ Observed(gauges, reading) \in Gauges
         /\ Observed(gauges, reading).seconds # None =>
              \E r \in Readings :
                /\ r.used # None /\ r.minutes # None
                /\ r.minutes[1] >= 0 => Observed(gauges, reading).seconds[1] >= r.minutes[1]
  <1> DEFINE new == Observed(gauges, reading)
  <1>1. reading \in Headers /\ gauges \in Gauges
    BY ServerAssumption DEF GaugesAreSound
  <1>2. CASE reading.used = None
    BY <1>1, <1>2 DEF GaugesAreSound, Observed
  <1>3. CASE reading.used # None
    <2>1. PICK u \in Ints : reading.used = <<u>>
      BY <1>1, <1>3 DEF Headers, Optional, Some, None
    <2>2. new.used \in Optional(0..100)
      BY <1>3, <2>1, ClampedInRange DEF Observed, Optional, Some
    <2>3. new.reset \in Optional(Ints)
      BY <1>1, <1>3 DEF Observed, Headers, Gauges
    <2>4. CASE reading.minutes = None
      <3>1. new.seconds = gauges.seconds
        BY <1>3, <2>4 DEF Observed
      <3>2. new \in Gauges
        BY <1>1, <1>3, <2>2, <2>3, <3>1 DEF Observed, Gauges
      <3> QED
        BY <3>1, <3>2 DEF GaugesAreSound
    <2>5. CASE reading.minutes # None
      <3>1. PICK n \in Ints : reading.minutes = <<n>>
        BY <1>1, <2>5 DEF Headers, Optional, Some, None
      <3>2. new.seconds = <<Saturating(n)>>
        BY <1>3, <2>5, <3>1 DEF Observed, Some
      <3>3. new \in Gauges
        BY <1>3, <2>2, <2>3, <3>2, SaturatingFits DEF Observed, Gauges, Optional, Some
      <3>4. n >= 0 => Saturating(n) >= n
        BY SaturatingFits
      <3> QED
        BY <1>3, <2>5, <3>1, <3>2, <3>3, <3>4
    <2> QED
      BY <2>4, <2>5
  <1> QED
    BY <1>2, <1>3

LEMMA InvInit == Init => Inv
  <1> SUFFICES ASSUME Init
               PROVE  Inv
    OBVIOUS
  <1>1. NoRequest.route = "other" /\ Nothing \in Heads /\ Nothing \in Answers /\ Nothing.status = 0
    BY DEF NoRequest, Nothing, Heads, Answers
  <1>2. GaugesAreSound
    BY DEF Init, GaugesAreSound, Unset, Gauges, Optional, None
  <1>3. TypeOK
    BY <1>1, <1>2 DEF Init, TypeOK, Suspended, Heads, Answers
  <1>4. ASSUME NEW c \in Clients
        PROVE  Fits(c)
    <2>1. pc[c] = "idle" /\ request[c] = NoRequest /\ sends[c] = 0 /\ answer[c].status = 0
      BY <1>1 DEF Init
    <2> QED
      BY <2>1 DEF Fits, ClientFits, DataPlaces, AfterLast
  <1> QED
    BY <1>3, <1>4 DEF Inv

\* Types, without what the whole process shares.
ClientTypes ==
  /\ pc \in [Clients -> Places]
  /\ request \in [Clients -> Requests \union {NoRequest}]
  /\ sends \in [Clients -> 0..2]
  /\ up \in [Clients -> Heads]
  /\ answer \in [Clients -> Answers]

LEMMA TypesOf == TypeOK => ClientTypes
  BY DEF TypeOK, ClientTypes, Places, Heads, Answers

AnswerStatuses == Statuses \union {0, 200, 400, 401, 404, 500, 502, 503}

\* An answer ends the handling of one request and touches no other.
LEMMA AnswerKeeps ==
  ASSUME ClientTypes, NEW c \in Clients, NEW s \in AnswerStatuses, NEW e \in BOOLEAN,
         Answered(c, s, e), UNCHANGED <<request, sends, up>>
  PROVE  /\ ClientTypes' /\ OthersStay(c)
         /\ pc'[c] = "over" /\ answer'[c] = [status |-> s, sse |-> e]
  <1> DEFINE new == [status |-> s, sse |-> e]
  <1>1. new \in Answers /\ "over" \in Places
    BY DEF Answers, AnswerStatuses, Places
  <1>2. pc' = [pc EXCEPT ![c] = "over"] /\ answer' = [answer EXCEPT ![c] = new]
    BY DEF Answered
  <1>3. pc' \in [Clients -> Places] /\ answer' \in [Clients -> Answers]
    <2> HIDE DEF new
    <2> QED
      BY <1>1, <1>2 DEF ClientTypes
  <1>4. OthersStay(c) /\ pc'[c] = "over" /\ answer'[c] = new
    <2> HIDE DEF new
    <2> QED
      BY <1>2 DEF ClientTypes, OthersStay
  <1> QED
    BY <1>3, <1>4 DEF ClientTypes

\* An answer that is no stream.
Plain(c, s) ==
  /\ answer' = [answer EXCEPT ![c] = [status |-> s, sse |-> FALSE]]
  /\ pc' = [pc EXCEPT ![c] = "over"]

LEMMA PlainKeeps ==
  ASSUME ClientTypes, NEW c \in Clients, NEW s \in AnswerStatuses,
         Plain(c, s), UNCHANGED <<request, sends, up>>
  PROVE  /\ ClientTypes' /\ OthersStay(c)
         /\ pc'[c] = "over" /\ answer'[c] = [status |-> s, sse |-> FALSE]
  <1> DEFINE new == [status |-> s, sse |-> FALSE]
  <1>1. new \in Answers /\ "over" \in Places
    BY DEF Answers, AnswerStatuses, Places
  <1>2. pc' = [pc EXCEPT ![c] = "over"] /\ answer' = [answer EXCEPT ![c] = new]
    BY DEF Plain
  <1>3. pc' \in [Clients -> Places] /\ answer' \in [Clients -> Answers]
    <2> HIDE DEF new
    <2> QED
      BY <1>1, <1>2 DEF ClientTypes
  <1>4. OthersStay(c) /\ pc'[c] = "over" /\ answer'[c] = new
    <2> HIDE DEF new
    <2> QED
      BY <1>2 DEF ClientTypes, OthersStay
  <1> QED
    BY <1>3, <1>4 DEF ClientTypes

LEMMA HeadOf ==
  ASSUME ClientTypes, NEW c \in Clients
  PROVE  up[c].status \in Statuses \union {0} /\ up[c].status \in Int /\ up[c].sse \in BOOLEAN
  <1>1. up[c] \in Heads
    BY DEF ClientTypes
  <1>2. up[c].status \in Statuses \union {0}
    BY <1>1 DEF Heads
  <1>3. up[c].sse \in BOOLEAN
    BY <1>1 DEF Heads
  <1>4. Statuses \union {0} \subseteq Int
    BY StatusesAreInts
  <1> QED
    BY <1>2, <1>3, <1>4

\* The step of one client, seen from that client.
LEMMA StepOfOne ==
  ASSUME Inv, NEW c \in Clients, ClientStep(c)
  PROVE  ClientTypes' /\ OthersStay(c) /\ Fits(c)'
  <1>0. ClientTypes /\ Fits(c) /\ app = app
    BY TypesOf DEF Inv
  <1> USE DEF Goes
  <1>p. Suspended \subseteq Places /\ {"asked", "heard", "over"} \subseteq Places
    BY DEF Places
  <1>s. {"admin", "token", "sent", "refresh", "mirroring", "buffering", "streaming"} \subseteq Places
    BY DEF Places, Suspended
  <1>a. /\ Nothing \in Heads /\ Nothing \in Answers /\ Nothing.status = 0
        /\ \A s \in Statuses \union {0, 200, 400, 401, 404, 500, 502, 503}, e \in BOOLEAN :
             [status |-> s, sse |-> e] \in Answers
    BY DEF Nothing, Heads, Answers
  <1>1. CASE Ask(c)
    <2>1. PICK r \in Requests :
            /\ request' = [request EXCEPT ![c] = r]
            /\ pc' = [pc EXCEPT ![c] = "asked"]
            /\ UNCHANGED <<sends, up, answer>>
            /\ pc[c] = "idle"
      BY <1>1 DEF Ask
    <2>2. ClientTypes' /\ OthersStay(c)
      BY <1>0, <1>p, <2>1 DEF ClientTypes, OthersStay
    <2>3. pc'[c] = "asked" /\ request'[c] = r /\ sends'[c] = sends[c] /\ up'[c] = up[c] /\ answer'[c] = answer[c]
      BY <1>0, <2>1 DEF ClientTypes, OthersStay
    <2>4. Fits(c)'
      BY <1>0, <2>1, <2>3 DEF Fits, ClientFits, DataPlaces, AfterLast, ClientTypes, OthersStay
    <2> QED
      BY <2>2, <2>4
  <1>2. CASE Enter(c)
    <2>1. UNCHANGED <<request, sends, up>> /\ pc[c] = "asked"
      BY <1>2 DEF Enter, Answered, Plain
    <2>2. ASSUME NEW s \in {400, 401, 404, 500}, Plain(c, s)
          PROVE  ClientTypes' /\ OthersStay(c) /\ Fits(c)'
      <3>1. s \in AnswerStatuses
        BY DEF AnswerStatuses
      <3>2. ClientTypes' /\ OthersStay(c) /\ pc'[c] = "over" /\ answer'[c] = [status |-> s, sse |-> FALSE]
        BY <1>0, <2>1, <2>2, <3>1, PlainKeeps
      <3> QED
        BY <3>2 DEF Fits, ClientFits, DataPlaces, AfterLast
    <2>3. ASSUME request[c].route \notin DataRoutes, Plain(c, 200)
          PROVE  ClientTypes' /\ OthersStay(c) /\ Fits(c)'
      <3>1. 200 \in AnswerStatuses
        BY DEF AnswerStatuses
      <3>2. ClientTypes' /\ OthersStay(c) /\ pc'[c] = "over"
        BY <1>0, <2>1, <2>3, <3>1, PlainKeeps
      <3>3. pc'[c] = "over" /\ request'[c].route \notin DataRoutes
        BY <2>1, <2>3, <3>2
      <3> QED
        BY <3>2, <3>3 DEF Fits, ClientFits, DataPlaces, AfterLast
    <2>4. ASSUME NEW p \in {"token", "admin"}, Goes(c, p),
                 p = "token" <=> request[c].route \in DataRoutes
          PROVE  ClientTypes' /\ OthersStay(c) /\ Fits(c)'
      <3>1. pc' = [pc EXCEPT ![c] = p] /\ answer' = answer
        BY <2>4
      <3>2. ClientTypes' /\ OthersStay(c)
        BY <1>0, <1>s, <2>1, <3>1 DEF ClientTypes, OthersStay
      <3>3. pc'[c] = p /\ sends'[c] = 0 /\ answer'[c].status = 0 /\ request'[c] = request[c]
        BY <1>0, <2>1, <3>1 DEF Fits, ClientFits, ClientTypes, OthersStay
      <3> QED
        BY <2>4, <3>2, <3>3 DEF Fits, ClientFits, DataPlaces, AfterLast
    <2>5. Gate(request[c]) \in {0, 401, 500} /\ AtOnce(request[c]) \in {200, 400, 404}
      BY DEF Gate, AtOnce
    <2> QED
      BY <1>2, <2>2, <2>3, <2>4, <2>5 DEF Enter, Answered, Plain
  <1>3. CASE Admin(c)
    <2>1. PICK s \in AnswerStatuses :
            Plain(c, s) /\ UNCHANGED <<request, sends, up>> /\ pc[c] = "admin"
      <3> DEFINE S == IF request[c].route = "status" THEN {200}
                      ELSE IF app.store = "env" THEN {400} ELSE {200, 500}
      <3>1. S \subseteq AnswerStatuses
        BY DEF AnswerStatuses
      <3> HIDE DEF S
      <3>2. UNCHANGED <<request, sends, up>> /\ pc[c] = "admin"
        BY <1>3 DEF Admin
      <3>3. PICK s \in S : Answered(c, s, FALSE)
        BY <1>3 DEF Admin, S
      <3>4. Plain(c, s)
        BY <3>3 DEF Answered, Plain
      <3> QED
        BY <3>1, <3>2, <3>4
    <2>2. ClientTypes' /\ OthersStay(c) /\ pc'[c] = "over"
      BY <1>0, <2>1, PlainKeeps
    <2>3. pc'[c] = "over" /\ request'[c].route \notin DataRoutes
      BY <1>0, <2>1, <2>2 DEF Fits, ClientFits, ClientTypes, OthersStay
    <2> QED
      BY <2>2, <2>3 DEF Fits, ClientFits, DataPlaces, AfterLast
  <1>4. CASE Token(c)
    <2>0. /\ pc[c] = "token" /\ request' = request /\ request[c].route \in DataRoutes
          /\ sends[c] \in {0, 1} /\ answer[c].status = 0
      BY <1>0, <1>4 DEF Token, Answered, Plain, Fits, ClientFits, DataPlaces, ClientTypes, OthersStay
    <2>1. CASE /\ sends' = [sends EXCEPT ![c] = @ + 1]
               /\ up' = [up EXCEPT ![c] = Nothing]
               /\ Goes(c, "sent")
      <3>1. sends[c] + 1 \in {1, 2}
        BY <2>0
      <3>2. ClientTypes' /\ OthersStay(c)
        BY <1>0, <1>s, <1>a, <2>0, <2>1, <3>1 DEF ClientTypes, OthersStay
      <3>3. /\ pc'[c] = "sent" /\ sends'[c] \in {1, 2} /\ up'[c].status = 0
            /\ answer'[c].status = 0 /\ request'[c].route \in DataRoutes
        BY <1>0, <1>a, <2>0, <2>1, <3>1 DEF ClientTypes, OthersStay
      <3> QED
        BY <3>2, <3>3 DEF Fits, ClientFits, DataPlaces, AfterLast
    <2>2. CASE Plain(c, 503) /\ UNCHANGED <<sends, up>>
      <3>0. 503 \in AnswerStatuses
        BY DEF AnswerStatuses
      <3>1. ClientTypes' /\ OthersStay(c) /\ pc'[c] = "over" /\ answer'[c] = [status |-> 503, sse |-> FALSE]
        BY <1>0, <2>0, <2>2, <3>0, PlainKeeps
      <3> QED
        BY <3>1 DEF Fits, ClientFits, DataPlaces, AfterLast
    <2> QED
      BY <1>4, <2>1, <2>2 DEF Token, Answered, Plain
  <1>5. CASE Hear(c)
    <2>1. PICK s \in Statuses, e \in BOOLEAN, p \in {"refresh", "heard"} :
            /\ up' = [up EXCEPT ![c] = [status |-> s, sse |-> e]]
            /\ pc' = [pc EXCEPT ![c] = p]
            /\ p = "refresh" <=> s = 401 /\ sends[c] = 1
            /\ UNCHANGED <<request, sends, answer>> /\ pc[c] = "sent"
      BY <1>5 DEF Hear, Retried
    <2>2. [status |-> s, sse |-> e] \in Heads
      BY DEF Heads
    <2>3. ClientTypes' /\ OthersStay(c)
      BY <1>0, <1>p, <1>s, <2>1, <2>2 DEF ClientTypes, OthersStay
    <2>4. /\ pc'[c] = p /\ up'[c].status = s /\ sends'[c] = sends[c] /\ sends[c] \in {1, 2}
          /\ answer'[c].status = 0 /\ request'[c].route \in DataRoutes
      BY <1>0, <2>1 DEF Fits, ClientFits, DataPlaces, ClientTypes, OthersStay
    <2> QED
      BY <2>1, <2>3, <2>4 DEF Fits, ClientFits, DataPlaces, AfterLast
  <1>6. CASE SendFails(c)
    <2>1. pc' = [pc EXCEPT ![c] = "heard"] /\ UNCHANGED <<request, sends, up, answer>> /\ pc[c] = "sent"
      BY <1>6 DEF SendFails
    <2>2. ClientTypes' /\ OthersStay(c)
      BY <1>0, <1>p, <2>1 DEF ClientTypes, OthersStay
    <2>3. /\ pc'[c] = "heard" /\ up'[c].status = 0 /\ sends'[c] \in {1, 2}
          /\ answer'[c].status = 0 /\ request'[c].route \in DataRoutes
      BY <1>0, <2>1 DEF Fits, ClientFits, DataPlaces, ClientTypes, OthersStay
    <2> QED
      BY <2>2, <2>3 DEF Fits, ClientFits, DataPlaces, AfterLast
  <1>7. CASE Refresh(c)
    <2>0. /\ pc[c] = "refresh" /\ UNCHANGED <<request, sends, up>> /\ request[c].route \in DataRoutes
          /\ sends[c] = 1 /\ up[c].status = 401 /\ answer[c].status = 0
      BY <1>0, <1>7 DEF Refresh, Answered, Plain, Fits, ClientFits, DataPlaces, ClientTypes, OthersStay
    <2>1. CASE Goes(c, "token")
      <3>1. ClientTypes' /\ OthersStay(c)
        BY <1>0, <1>s, <2>0, <2>1 DEF ClientTypes, OthersStay
      <3>2. pc'[c] = "token" /\ answer'[c].status = 0
        BY <1>0, <2>0, <2>1 DEF ClientTypes, OthersStay
      <3> QED
        BY <2>0, <3>1, <3>2 DEF Fits, ClientFits, DataPlaces, AfterLast
    <2>2. CASE Plain(c, 503)
      <3>0. 503 \in AnswerStatuses
        BY DEF AnswerStatuses
      <3>1. ClientTypes' /\ OthersStay(c) /\ pc'[c] = "over" /\ answer'[c] = [status |-> 503, sse |-> FALSE]
        BY <1>0, <2>0, <2>2, <3>0, PlainKeeps
      <3> QED
        BY <3>1 DEF Fits, ClientFits, DataPlaces, AfterLast
    <2> QED
      BY <1>7, <2>1, <2>2 DEF Refresh, Answered, Plain
  <1>8. CASE Dispatch(c)
    <2>0. /\ pc[c] = "heard" /\ UNCHANGED <<request, sends, up>> /\ request[c].route \in DataRoutes
          /\ sends[c] \in {1, 2} /\ ~(sends[c] = 1 /\ up[c].status = 401) /\ answer[c].status = 0
      BY <1>0, <1>8 DEF Dispatch, Answered, Plain, Fits, ClientFits, DataPlaces, AfterLast, ClientTypes, OthersStay
    <2>1. CASE up[c].status = 0
      <3>1. Plain(c, 503)
        BY <1>8, <2>1 DEF Dispatch, Answered, Plain
      <3>0. 503 \in AnswerStatuses
        BY DEF AnswerStatuses
      <3>2. ClientTypes' /\ OthersStay(c) /\ pc'[c] = "over" /\ answer'[c] = [status |-> 503, sse |-> FALSE]
        BY <1>0, <2>0, <3>0, <3>1, PlainKeeps
      <3> QED
        BY <3>2 DEF Fits, ClientFits, DataPlaces, AfterLast
    <2>2. CASE up[c].status # 0
      <3>1. up[c].status \in Int
        BY <1>0, HeadOf
      <3>2. \/ /\ Goes(c, "mirroring")
               /\ request[c].route = "chat" => up[c].status # 200
               /\ request[c].route = "responses" => up[c].status >= 400 \/ ~up[c].sse
            \/ Goes(c, "buffering") /\ up[c].status < 400 /\ ~request[c].stream
            \/ Relayed(c) /\ up[c].status < 400 /\ request[c].stream
        BY <1>8, <2>0, <2>2, <3>1 DEF Dispatch, Answered, Plain, Chat, Responses, DataRoutes
      <3>3. CASE Relayed(c) /\ request[c].stream
        <4>1. [status |-> up[c].status, sse |-> TRUE] \in Answers
          BY <1>0 DEF Heads, Answers, ClientTypes, OthersStay
        <4>2. ClientTypes' /\ OthersStay(c)
          BY <1>0, <1>s, <2>0, <3>3, <4>1 DEF Relayed, ClientTypes, OthersStay
        <4>3. pc'[c] = "streaming" /\ answer'[c].sse /\ request'[c].stream
          BY <1>0, <2>0, <3>3 DEF Relayed, ClientTypes, OthersStay
        <4> QED
          BY <2>0, <4>2, <4>3 DEF Fits, ClientFits, DataPlaces, AfterLast
      <3>4. ASSUME NEW p \in {"mirroring", "buffering"}, Goes(c, p),
                   p = "mirroring" =>
                     /\ request[c].route = "chat" => up[c].status # 200
                     /\ request[c].route = "responses" => up[c].status >= 400 \/ ~up[c].sse,
                   p = "buffering" => up[c].status < 400 /\ ~request[c].stream
            PROVE  ClientTypes' /\ OthersStay(c) /\ Fits(c)'
        <4>1. ClientTypes' /\ OthersStay(c)
          BY <1>0, <1>s, <2>0, <3>4 DEF ClientTypes, OthersStay
        <4>2. pc'[c] = p /\ answer'[c].status = 0 /\ request'[c] = request[c]
              /\ sends'[c] = sends[c] /\ up'[c] = up[c]
          BY <1>0, <2>0, <3>4 DEF ClientTypes, OthersStay
        <4> QED
          BY <2>0, <2>2, <3>4, <4>1, <4>2 DEF Fits, ClientFits, DataPlaces, AfterLast
      <3> QED
        BY <3>2, <3>3, <3>4
    <2> QED
      BY <2>1, <2>2
  <1>9. CASE Mirror(c)
    <2>0. pc[c] = "mirroring" /\ UNCHANGED <<request, sends, up>>
      BY <1>9 DEF Mirror, Answered, Plain
    <2>1. ASSUME NEW s \in AnswerStatuses, NEW e \in BOOLEAN, Answered(c, s, e),
                 s = 200 => s = up[c].status /\ e = up[c].sse
          PROVE  ClientTypes' /\ OthersStay(c) /\ Fits(c)'
      <3>1. ClientTypes' /\ OthersStay(c) /\ pc'[c] = "over" /\ answer'[c] = [status |-> s, sse |-> e]
        BY <1>0, <2>0, <2>1, AnswerKeeps
      <3>2. /\ answer'[c].status = s /\ answer'[c].sse = e
            /\ request'[c] = request[c] /\ up'[c] = up[c]
        BY <2>0, <3>1
      <3>3. (s = 200 /\ request[c].route \in DataRoutes) =>
              request[c].route = "responses" /\ ~e /\ ~up[c].sse
        BY <1>0, <2>0, <2>1 DEF Fits, ClientFits, DataRoutes
      <3> QED
        BY <3>1, <3>2, <3>3 DEF Fits, ClientFits, DataPlaces, AfterLast
    <2>2. up[c].status \in AnswerStatuses /\ up[c].sse \in BOOLEAN /\ 502 \in AnswerStatuses
      BY <1>0, HeadOf DEF AnswerStatuses
    <2>3. CASE Answered(c, up[c].status, up[c].sse)
      BY <2>1, <2>2, <2>3
    <2>4. CASE Plain(c, 502)
      <3>1. ClientTypes' /\ OthersStay(c) /\ pc'[c] = "over" /\ answer'[c] = [status |-> 502, sse |-> FALSE]
        BY <1>0, <2>0, <2>2, <2>4, PlainKeeps
      <3> QED
        BY <3>1 DEF Fits, ClientFits, DataPlaces, AfterLast
    <2> QED
      BY <1>9, <2>3, <2>4 DEF Mirror, Answered, Plain
  <1>10. CASE Buffer(c)
    <2>0. UNCHANGED <<request, sends, up>> /\ pc[c] = "buffering"
      BY <1>10 DEF Buffer
    <2>1. PICK s \in {200, 500} : Plain(c, s)
      <3>1. PICK s \in {200, 500} : Answered(c, s, FALSE)
        BY <1>10 DEF Buffer
      <3>2. Plain(c, s)
        BY <3>1 DEF Answered, Plain
      <3> QED
        BY <3>2
    <2>s. s \in AnswerStatuses
      BY DEF AnswerStatuses
    <2>2. ClientTypes' /\ OthersStay(c) /\ pc'[c] = "over" /\ answer'[c] = [status |-> s, sse |-> FALSE]
      BY <1>0, <2>0, <2>1, <2>s, PlainKeeps
    <2>3. pc'[c] = "over" /\ ~answer'[c].sse /\ ~request'[c].stream
      BY <1>0, <2>0, <2>1, <2>2 DEF Fits, ClientFits, ClientTypes, OthersStay
    <2> QED
      BY <2>2, <2>3 DEF Fits, ClientFits, DataPlaces, AfterLast
  <1>11. CASE StreamEnds(c) \/ Leave(c)
    <2>1. pc' = [pc EXCEPT ![c] = "over"] /\ UNCHANGED <<request, sends, up, answer>>
      BY <1>11 DEF StreamEnds, Leave
    <2>2. ClientTypes' /\ OthersStay(c)
      BY <1>0, <1>p, <2>1 DEF ClientTypes, OthersStay
    <2>3. /\ pc'[c] = "over" /\ request'[c] = request[c] /\ up'[c] = up[c]
          /\ answer'[c] = answer[c]
      BY <1>0, <2>1 DEF ClientTypes, OthersStay
    <2> QED
      BY <1>0, <2>2, <2>3 DEF Fits, ClientFits, DataPlaces, AfterLast, ClientTypes, OthersStay
  <1> QED
    BY <1>1, <1>2, <1>3, <1>4, <1>5, <1>6, <1>7, <1>8, <1>9, <1>10, <1>11 DEF ClientStep, Handler

\* The step of one client, seen from what the process shares.
LEMMA SharedOfOne ==
  ASSUME Inv, NEW c \in Clients, ClientStep(c)
  PROVE  UNCHANGED <<process, app>> /\ GaugesAreSound'
  <1>0. GaugesAreSound
    BY DEF Inv, TypeOK
  <1>1. CASE Hear(c)
    <2>1. UNCHANGED <<process, app>>
      BY <1>1 DEF Hear
    <2>2. UNCHANGED gauges \/ \E reading \in Readings : gauges' = Observed(gauges, reading)
      BY <1>1 DEF Hear
    <2> QED
      BY <1>0, <2>1, <2>2, ObservedSound DEF GaugesAreSound
  <1>2. CASE UNCHANGED <<process, app, gauges>>
    BY <1>0, <1>2 DEF GaugesAreSound
  <1> QED
    BY <1>1, <1>2 DEF ClientStep, Handler, Ask, Enter, Admin, Token, SendFails, Refresh, Dispatch,
                      Mirror, Buffer, StreamEnds, Leave

\* Start serves only what clap and the wiring accept.
LEMMA StartFits ==
  ASSUME TypeOK, Start
  PROVE  TypeOK'
  <1>1. PICK config \in Configs :
          IF Parses(config) /\ Wires(config)
            THEN process' = "serving" /\ app' = App(config)
            ELSE process' = "refused" /\ app' = NoApp
    BY DEF Start
  <1>2. UNCHANGED <<gauges, pc, request, sends, up, answer>>
    BY DEF Start
  <1>3. CASE Parses(config) /\ Wires(config)
    <2>1. process' = "serving" /\ app' = App(config)
      BY <1>1, <1>3
    <2>2. app'.keepalive >= 1 /\ app'.ttl >= 1 /\ (app'.mode = "router" => ~app'.ticker)
      BY <1>3, <2>1 DEF Parses, App
    <2> QED
      BY <1>2, <2>1, <2>2 DEF TypeOK, GaugesAreSound
  <1>4. CASE ~(Parses(config) /\ Wires(config))
    BY <1>1, <1>2, <1>4 DEF TypeOK, GaugesAreSound
  <1> QED
    BY <1>3, <1>4

LEMMA InvNext == Inv /\ [Next]_vars => Inv'
  <1> SUFFICES ASSUME Inv, [Next]_vars
               PROVE  Inv'
    OBVIOUS
  <1>0. TypeOK
    BY DEF Inv
  <1>1. ASSUME TypeOK', UNCHANGED <<pc, request, sends, up, answer>>
        PROVE  Inv'
    BY <1>1 DEF Inv, Fits
  <1>2. CASE Start
    BY <1>0, <1>1, <1>2, StartFits DEF Start
  <1>3. CASE Signal \/ Exit \/ UNCHANGED vars
    <2>1. UNCHANGED <<app, gauges, pc, request, sends, up, answer>>
      BY <1>3 DEF Signal, Exit, vars
    <2>2. TypeOK'
      BY <1>0, <1>3, <2>1 DEF TypeOK, GaugesAreSound, Signal, Exit, vars
    <2> QED
      BY <1>1, <2>1, <2>2
  <1>4. ASSUME NEW c \in Clients, ClientStep(c)
        PROVE  Inv'
    <2>1. ClientTypes' /\ OthersStay(c) /\ Fits(c)' /\ UNCHANGED <<process, app>> /\ GaugesAreSound'
      BY <1>4, StepOfOne, SharedOfOne
    <2>2. TypeOK'
      BY <1>0, <2>1 DEF TypeOK, ClientTypes, Places, Heads, Answers
    <2>3. \A d \in Clients \ {c} : Fits(d)'
      BY <2>1 DEF Inv, Fits, OthersStay
    <2> QED
      BY <2>1, <2>2, <2>3 DEF Inv
  <1> QED
    BY <1>2, <1>3, <1>4 DEF Next, ClientStep

LEMMA InvAlways == Spec => []Inv
  BY InvInit, InvNext, PTL DEF Spec

\* Whatever the configuration, the requests, and the upstream's headers: a process that
\* serves has what its parts assume, and its gauges stay in their domain.
THEOREM ServerTypes == Spec => []TypeOK
  BY InvAlways, PTL DEF Inv

\* However the upstream answers, and after a retry as well, a successful answer has the
\* form the caller asked for (chat.rs, responses.rs).
THEOREM FormatsHold == Spec => []FormatAsAsked
  <1>1. Inv => FormatAsAsked
    BY DEF Inv, Fits, ClientFits, FormatAsAsked
  <1> QED
    BY <1>1, InvAlways, PTL

-----------------------------------------------------------------------------
(* The pod contract *)

PodPhase == [c \in Clients |-> Phase(c)]
PodWaiting == [c \in Clients |-> pc[c] = "sent"]
PodHeard == [c \in Clients |-> up[c].status]
PodAnswer == [c \in Clients |-> answer[c].status]

\* The contract in terms of the process.
LEMMA PodActions ==
  ASSUME NEW c \in Clients
  PROVE  /\ Pod!Ask(c) <=>
              /\ PodPhase[c] = "idle"
              /\ \E kind \in {"local", "data"} : PodPhase' = [PodPhase EXCEPT ![c] = kind]
              /\ UNCHANGED <<sends, PodWaiting, PodHeard, PodAnswer>>
         /\ Pod!Send(c) <=>
              /\ PodPhase[c] = "data" /\ ~PodWaiting[c]
              /\ sends[c] = 0 \/ (sends[c] = 1 /\ PodHeard[c] = 401)
              /\ sends' = [sends EXCEPT ![c] = @ + 1]
              /\ PodWaiting' = [PodWaiting EXCEPT ![c] = TRUE]
              /\ PodHeard' = [PodHeard EXCEPT ![c] = 0]
              /\ UNCHANGED <<PodPhase, PodAnswer>>
         /\ Pod!Allowed(c) =
              IF PodPhase[c] = "local" THEN {200, 400, 401, 404, 500}
              ELSE IF sends[c] = 0 THEN {400, 401, 500, 503}
              ELSE IF PodHeard[c] = 0 \/ (sends[c] = 1 /\ PodHeard[c] = 401) THEN {503}
              ELSE IF PodHeard[c] < 400 THEN {200, PodHeard[c], 500, 502}
              ELSE {PodHeard[c], 502}
         /\ UNCHANGED <<PodPhase, sends, PodWaiting, PodHeard, PodAnswer>> => UNCHANGED Pod!vars
  BY DEF Pod!Ask, Pod!Send, Pod!Allowed, Pod!vars,
         PodPhase, PodWaiting, PodHeard, PodAnswer

LEMMA PodHearIs ==
  ASSUME NEW c \in Clients
  PROVE  Pod!Hear(c) <=>
          /\ PodPhase[c] = "data" /\ PodWaiting[c]
          /\ \E status \in Statuses \union {0} :
               PodHeard' = [PodHeard EXCEPT ![c] = status]
          /\ PodWaiting' = [PodWaiting EXCEPT ![c] = FALSE]
          /\ UNCHANGED <<PodPhase, sends, PodAnswer>>
  BY DEF Pod!Hear, PodPhase, PodWaiting, PodHeard, PodAnswer

LEMMA PodAnswerIs ==
  ASSUME NEW c \in Clients
  PROVE  Pod!Answer(c) <=>
          /\ PodPhase[c] \in {"local", "data"} /\ ~PodWaiting[c]
          /\ \E status \in Pod!Allowed(c) : PodAnswer' = [PodAnswer EXCEPT ![c] = status]
          /\ PodPhase' = [PodPhase EXCEPT ![c] = "over"]
          /\ UNCHANGED <<sends, PodWaiting, PodHeard>>
  BY DEF Pod!Answer, PodPhase, PodWaiting, PodHeard, PodAnswer

LEMMA PodLeaveIs ==
  ASSUME NEW c \in Clients
  PROVE  Pod!Leave(c) <=>
          /\ PodPhase[c] \in {"local", "data"}
          /\ PodPhase' = [PodPhase EXCEPT ![c] = "over"]
          /\ PodWaiting' = [PodWaiting EXCEPT ![c] = FALSE]
          /\ UNCHANGED <<sends, PodHeard, PodAnswer>>
  BY DEF Pod!Leave, PodPhase, PodWaiting, PodHeard, PodAnswer

\* What the step of one client does to what the contract sees.
LEMMA PodMoves ==
  ASSUME NEW c \in Clients, OthersStay(c)
  PROVE  /\ PodPhase[c] = Phase(c) /\ (PodWaiting[c] <=> pc[c] = "sent")
         /\ PodHeard[c] = up[c].status /\ PodAnswer[c] = answer[c].status
         /\ PodPhase' = [PodPhase EXCEPT ![c] = Phase(c)']
         /\ Phase(c)' = Phase(c) => UNCHANGED PodPhase
         /\ pc'[c] = "sent" => PodWaiting' = [PodWaiting EXCEPT ![c] = TRUE]
         /\ pc'[c] # "sent" => PodWaiting' = [PodWaiting EXCEPT ![c] = FALSE]
         /\ (pc'[c] # "sent" /\ pc[c] # "sent") => UNCHANGED PodWaiting
         /\ PodHeard' = [PodHeard EXCEPT ![c] = up'[c].status]
         /\ up'[c].status = up[c].status => UNCHANGED PodHeard
         /\ PodAnswer' = [PodAnswer EXCEPT ![c] = answer'[c].status]
         /\ answer'[c].status = answer[c].status => UNCHANGED PodAnswer
  <1>1. \A d \in Clients \ {c} : Phase(d)' = Phase(d)
    BY DEF OthersStay, Phase
  <1>2. /\ PodPhase[c] = Phase(c)
        /\ PodPhase' = [PodPhase EXCEPT ![c] = Phase(c)']
        /\ Phase(c)' = Phase(c) => UNCHANGED PodPhase
    BY <1>1 DEF PodPhase
  <1>3. /\ PodWaiting[c] <=> pc[c] = "sent"
        /\ pc'[c] = "sent" => PodWaiting' = [PodWaiting EXCEPT ![c] = TRUE]
        /\ pc'[c] # "sent" => PodWaiting' = [PodWaiting EXCEPT ![c] = FALSE]
        /\ (pc'[c] # "sent" /\ pc[c] # "sent") => UNCHANGED PodWaiting
    BY DEF OthersStay, PodWaiting
  <1>4. /\ PodHeard[c] = up[c].status
        /\ PodHeard' = [PodHeard EXCEPT ![c] = up'[c].status]
        /\ up'[c].status = up[c].status => UNCHANGED PodHeard
    BY DEF OthersStay, PodHeard
  <1>5. /\ PodAnswer[c] = answer[c].status
        /\ PodAnswer' = [PodAnswer EXCEPT ![c] = answer'[c].status]
        /\ answer'[c].status = answer[c].status => UNCHANGED PodAnswer
    BY DEF OthersStay, PodAnswer
  <1> QED
    BY <1>2, <1>3, <1>4, <1>5

\* What a request may be answered, by what has happened to it.
MayAnswer(c) ==
  IF request[c].route \notin DataRoutes THEN {200, 400, 401, 404, 500}
  ELSE IF sends[c] = 0 THEN {400, 401, 500, 503}
  ELSE IF up[c].status = 0 \/ (sends[c] = 1 /\ up[c].status = 401) THEN {503}
  ELSE IF up[c].status < 400 THEN {200, up[c].status, 500, 502}
  ELSE {up[c].status, 502}

\* An answer of the handler is an answer of the contract.
LEMMA AnswersAsPod ==
  ASSUME NEW c \in Clients, OthersStay(c), UNCHANGED <<request, sends, up>>,
         pc[c] \in Handling \ {"sent"}, pc'[c] \in {"over", "streaming"},
         answer'[c].status \in MayAnswer(c)
  PROVE  Pod!Answer(c)
  <1>1. Phase(c) = IF request[c].route \in DataRoutes THEN "data" ELSE "local"
    BY DEF Phase
  <1>2. Phase(c)' = "over" /\ pc'[c] # "sent"
    BY DEF Phase, Handling
  <1>3. Pod!Allowed(c) = MayAnswer(c)
    <2>1. PodPhase[c] = "local" <=> request[c].route \notin DataRoutes
      BY <1>1, PodMoves
    <2>2. PodHeard[c] = up[c].status
      BY PodMoves
    <2> QED
      BY <2>1, <2>2, PodActions DEF MayAnswer
  <1>4. PodPhase[c] \in {"local", "data"} /\ ~PodWaiting[c]
    BY <1>1, PodMoves
  <1>5. PodAnswer' = [PodAnswer EXCEPT ![c] = answer'[c].status]
    BY PodMoves
  <1>6. PodPhase' = [PodPhase EXCEPT ![c] = "over"]
    BY <1>2, PodMoves
  <1>7. UNCHANGED <<sends, PodWaiting, PodHeard>>
    BY <1>2, PodMoves
  <1>8. \E status \in Pod!Allowed(c) : PodAnswer' = [PodAnswer EXCEPT ![c] = status]
    BY <1>3, <1>5
  <1> QED
    BY <1>4, <1>6, <1>7, <1>8, PodAnswerIs

\* The steps the contract does not see.
LEMMA UnseenByPod ==
  ASSUME NEW c \in Clients, OthersStay(c), UNCHANGED <<request, sends, up, answer>>,
         pc[c] # "sent", pc'[c] # "sent",
         \/ pc[c] \in Handling /\ pc'[c] \in Handling
         \/ pc[c] = "streaming" /\ pc'[c] = "over"
  PROVE  UNCHANGED Pod!vars
  <1>1. Phase(c)' = Phase(c)
    BY DEF Phase, Handling
  <1>2. UNCHANGED <<PodPhase, PodWaiting, PodHeard, PodAnswer>>
    BY <1>1, PodMoves
  <1> QED
    BY <1>2, PodActions

\* The step of one client is a step of the contract or none.
LEMMA PodStepOfOne ==
  ASSUME Inv, NEW c \in Clients, ClientStep(c)
  PROVE  Pod!Next \/ UNCHANGED Pod!vars
  <1>0. OthersStay(c) /\ ClientTypes /\ Fits(c) /\ Fits(c)'
    BY StepOfOne, TypesOf DEF Inv
  <1>a. Pod!Ask(c) \/ Pod!Send(c) \/ Pod!Hear(c) \/ Pod!Answer(c) \/ Pod!Leave(c) => Pod!Next
    BY DEF Pod!Next
  <1>b. ASSUME NEW s, Plain(c, s), UNCHANGED <<request, sends, up>>,
               pc[c] \in Handling \ {"sent"}, s \in MayAnswer(c)
        PROVE  Pod!Next
    <2>1. pc'[c] = "over" /\ answer'[c].status = s
      BY <1>0, <1>b DEF Plain, ClientTypes
    <2> QED
      BY <1>0, <1>a, <1>b, <2>1, AnswersAsPod
  <1>c. ASSUME NEW p \in Handling \ {"sent"}, Goes(c, p), UNCHANGED <<request, sends, up>>,
               pc[c] \in Handling \ {"sent"}
        PROVE  UNCHANGED Pod!vars
    <2>1. pc'[c] = p /\ UNCHANGED answer
      BY <1>0, <1>c DEF Goes, ClientTypes
    <2> QED
      BY <1>0, <1>c, <2>1, UnseenByPod
  <1>1. CASE Ask(c)
    <2>1. /\ pc[c] = "idle" /\ pc' = [pc EXCEPT ![c] = "asked"]
          /\ UNCHANGED <<sends, up, answer>>
      BY <1>1 DEF Ask, Goes
    <2>2. pc'[c] = "asked"
      BY <1>0, <2>1 DEF ClientTypes
    <2>3. Phase(c) = "idle" /\ Phase(c)' \in {"local", "data"}
      BY <2>1, <2>2 DEF Phase, Handling
    <2>4. UNCHANGED <<sends, PodWaiting, PodHeard, PodAnswer>>
      BY <1>0, <2>1, <2>2, PodMoves
    <2>5. Pod!Ask(c)
      BY <1>0, <2>3, <2>4, PodMoves, PodActions
    <2> QED
      BY <1>a, <2>5
  <1>2. CASE Enter(c)
    <2>1. UNCHANGED <<request, sends, up>> /\ pc[c] = "asked" /\ sends[c] = 0
      BY <1>0, <1>2 DEF Enter, Answered, Plain, Fits, ClientFits
    <2>2. pc[c] \in Handling \ {"sent"}
      BY <2>1 DEF Handling
    <2>3. CASE Gate(request[c]) # 0 /\ Plain(c, Gate(request[c]))
      <3>1. Gate(request[c]) \in {401, 500}
        BY <2>3 DEF Gate
      <3>2. Gate(request[c]) \in MayAnswer(c)
        BY <2>1, <3>1 DEF MayAnswer
      <3> QED
        BY <1>b, <2>1, <2>2, <2>3, <3>2
    <2>4. CASE request[c].route \in DataRoutes /\ Plain(c, 400)
      <3>1. 400 \in MayAnswer(c)
        BY <2>1, <2>4 DEF MayAnswer
      <3> QED
        BY <1>b, <2>1, <2>2, <2>4, <3>1
    <2>5. CASE request[c].route \notin DataRoutes /\ Plain(c, AtOnce(request[c]))
      <3>1. AtOnce(request[c]) \in MayAnswer(c)
        BY <2>5 DEF AtOnce, MayAnswer
      <3> QED
        BY <1>b, <2>1, <2>2, <2>5, <3>1
    <2>6. CASE Goes(c, "token") \/ Goes(c, "admin")
      <3>1. {"token", "admin"} \subseteq Handling \ {"sent"}
        BY DEF Handling
      <3> QED
        BY <1>c, <2>1, <2>2, <2>6, <3>1
    <2> QED
      BY <1>2, <2>3, <2>4, <2>5, <2>6 DEF Enter, Answered, Plain
  <1>3. CASE Admin(c)
    <2>1. /\ UNCHANGED <<request, sends, up>> /\ pc[c] = "admin"
          /\ request[c].route \notin DataRoutes
      BY <1>0, <1>3 DEF Admin, Answered, Plain, Fits, ClientFits
    <2>2. pc[c] \in Handling \ {"sent"} /\ {200, 400, 500} \subseteq MayAnswer(c)
      BY <2>1 DEF Handling, MayAnswer
    <2>3. PICK s \in {200, 400, 500} : Plain(c, s)
      <3> DEFINE S == IF request[c].route = "status" THEN {200}
                      ELSE IF app.store = "env" THEN {400} ELSE {200, 500}
      <3>1. S \subseteq {200, 400, 500}
        OBVIOUS
      <3> HIDE DEF S
      <3>2. \E s \in S : Plain(c, s)
        <4>1. \E s \in S : Answered(c, s, FALSE)
          BY <1>3 DEF Admin, S
        <4> QED
          BY <4>1 DEF Answered, Plain
      <3> QED
        BY <3>1, <3>2
    <2> QED
      BY <1>b, <2>1, <2>2, <2>3
  <1>4. CASE Token(c)
    <2>1. /\ UNCHANGED request /\ pc[c] = "token" /\ request[c].route \in DataRoutes
          /\ sends[c] = 0 \/ (sends[c] = 1 /\ up[c].status = 401)
      BY <1>0, <1>4 DEF Token, Answered, Plain, Fits, ClientFits, DataPlaces
    <2>2. CASE /\ sends' = [sends EXCEPT ![c] = @ + 1]
               /\ up' = [up EXCEPT ![c] = Nothing]
               /\ Goes(c, "sent")
      <3>1. pc'[c] = "sent" /\ up'[c].status = 0 /\ UNCHANGED answer
        BY <1>0, <2>2 DEF Goes, ClientTypes, Nothing
      <3>2. Phase(c) = "data" /\ Phase(c)' = Phase(c)
        BY <2>1, <3>1 DEF Phase, Handling
      <3>3. /\ PodPhase[c] = "data" /\ ~PodWaiting[c]
            /\ sends[c] = 0 \/ (sends[c] = 1 /\ PodHeard[c] = 401)
            /\ PodWaiting' = [PodWaiting EXCEPT ![c] = TRUE]
            /\ PodHeard' = [PodHeard EXCEPT ![c] = 0]
            /\ UNCHANGED <<PodPhase, PodAnswer>>
        BY <1>0, <2>1, <3>1, <3>2, PodMoves
      <3>4. Pod!Send(c)
        BY <2>2, <3>3, PodActions
      <3> QED
        BY <1>a, <3>4
    <2>3. CASE Plain(c, 503) /\ UNCHANGED <<sends, up>>
      <3>1. pc[c] \in Handling \ {"sent"} /\ 503 \in MayAnswer(c)
        BY <2>1 DEF Handling, MayAnswer
      <3> QED
        BY <1>b, <2>1, <2>3, <3>1
    <2> QED
      BY <1>4, <2>2, <2>3 DEF Token, Answered, Plain
  <1>5. CASE Hear(c) \/ SendFails(c)
    <2>1. /\ pc[c] = "sent" /\ request[c].route \in DataRoutes /\ up[c].status = 0
          /\ UNCHANGED <<request, sends, answer>>
      BY <1>0, <1>5 DEF Hear, SendFails, Goes, Fits, ClientFits, DataPlaces
    <2>2. pc'[c] \in {"refresh", "heard"} /\ up'[c].status \in Statuses \union {0}
      <3>1. CASE Hear(c)
        <4>1. PICK s \in Statuses, e \in BOOLEAN, p \in {"refresh", "heard"} :
                /\ up' = [up EXCEPT ![c] = [status |-> s, sse |-> e]]
                /\ pc' = [pc EXCEPT ![c] = p]
          BY <3>1 DEF Hear, Goes
        <4> QED
          BY <1>0, <4>1 DEF ClientTypes
      <3>2. CASE SendFails(c)
        BY <1>0, <2>1, <3>2 DEF SendFails, Goes, ClientTypes
      <3> QED
        BY <1>5, <3>1, <3>2
    <2>3. Phase(c) = "data" /\ Phase(c)' = Phase(c)
      BY <2>1, <2>2 DEF Phase, Handling
    <2>4. /\ PodPhase[c] = "data" /\ PodWaiting[c]
          /\ PodHeard' = [PodHeard EXCEPT ![c] = up'[c].status]
          /\ PodWaiting' = [PodWaiting EXCEPT ![c] = FALSE]
          /\ UNCHANGED <<PodPhase, PodAnswer>>
      BY <1>0, <2>1, <2>2, <2>3, PodMoves
    <2>5. Pod!Hear(c)
      BY <2>1, <2>2, <2>4, PodHearIs
    <2> QED
      BY <1>a, <2>5
  <1>6. CASE Refresh(c)
    <2>1. /\ UNCHANGED <<request, sends, up>> /\ pc[c] = "refresh"
          /\ request[c].route \in DataRoutes /\ sends[c] = 1 /\ up[c].status = 401
      BY <1>0, <1>6 DEF Refresh, Answered, Plain, Fits, ClientFits, DataPlaces
    <2>2. /\ pc[c] \in Handling \ {"sent"} /\ "token" \in Handling \ {"sent"}
          /\ 503 \in MayAnswer(c)
      BY <2>1 DEF Handling, MayAnswer
    <2> QED
      BY <1>6, <1>b, <1>c, <2>1, <2>2 DEF Refresh, Answered, Plain
  <1>7. CASE Dispatch(c)
    <2>1. /\ UNCHANGED <<request, sends, up>> /\ pc[c] = "heard"
          /\ request[c].route \in DataRoutes /\ sends[c] \in {1, 2}
          /\ ~(sends[c] = 1 /\ up[c].status = 401)
      BY <1>0, <1>7 DEF Dispatch, Answered, Plain, Fits, ClientFits, DataPlaces, AfterLast
    <2>2. pc[c] \in Handling \ {"sent"} /\ {"mirroring", "buffering"} \subseteq Handling \ {"sent"}
      BY <2>1 DEF Handling
    <2>3. CASE up[c].status = 0
      <3>1. 503 \in MayAnswer(c) /\ Plain(c, 503)
        BY <1>7, <2>1, <2>3 DEF Dispatch, Answered, Plain, MayAnswer
      <3> QED
        BY <1>b, <2>1, <2>2, <3>1
    <2>4. CASE up[c].status # 0
      <3>1. up[c].status \in Int
        BY <1>0, HeadOf
      <3>2. \/ Goes(c, "mirroring")
            \/ Goes(c, "buffering")
            \/ Relayed(c) /\ up[c].status < 400
        BY <1>7, <2>4, <3>1 DEF Dispatch, Answered, Plain, Chat, Responses
      <3>3. CASE Relayed(c) /\ up[c].status < 400
        <4>1. pc'[c] = "streaming" /\ answer'[c].status = up[c].status
          BY <1>0, <3>3 DEF Relayed, ClientTypes
        <4>2. up[c].status \in MayAnswer(c)
          BY <2>1, <2>4, <3>3 DEF MayAnswer
        <4> QED
          BY <1>0, <1>a, <2>1, <2>2, <4>1, <4>2, AnswersAsPod
      <3> QED
        BY <1>c, <2>1, <2>2, <3>2, <3>3
    <2> QED
      BY <2>3, <2>4
  <1>8. CASE Mirror(c)
    <2>1. /\ UNCHANGED <<request, sends, up>> /\ pc[c] = "mirroring"
          /\ request[c].route \in DataRoutes /\ sends[c] \in {1, 2}
          /\ ~(sends[c] = 1 /\ up[c].status = 401) /\ up[c].status # 0
      BY <1>0, <1>8 DEF Mirror, Answered, Plain, Fits, ClientFits, DataPlaces, AfterLast
    <2>2. /\ pc[c] \in Handling \ {"sent"}
          /\ up[c].status \in MayAnswer(c) /\ 502 \in MayAnswer(c)
      BY <2>1 DEF Handling, MayAnswer
    <2>3. CASE Answered(c, up[c].status, up[c].sse)
      <3>1. pc'[c] = "over" /\ answer'[c].status = up[c].status
        BY <1>0, <2>3 DEF Answered, ClientTypes
      <3> QED
        BY <1>0, <1>a, <2>1, <2>2, <3>1, AnswersAsPod
    <2>4. CASE Answered(c, 502, FALSE)
      <3>1. Plain(c, 502)
        BY <2>4 DEF Answered, Plain
      <3> QED
        BY <1>b, <2>1, <2>2, <3>1
    <2> QED
      BY <1>8, <2>3, <2>4 DEF Mirror
  <1>9. CASE Buffer(c)
    <2>1. /\ UNCHANGED <<request, sends, up>> /\ pc[c] = "buffering"
          /\ request[c].route \in DataRoutes /\ sends[c] \in {1, 2}
          /\ ~(sends[c] = 1 /\ up[c].status = 401) /\ up[c].status # 0 /\ up[c].status < 400
      BY <1>0, <1>9 DEF Buffer, Answered, Plain, Fits, ClientFits, DataPlaces, AfterLast
    <2>2. pc[c] \in Handling \ {"sent"} /\ {200, 500} \subseteq MayAnswer(c)
      BY <2>1 DEF Handling, MayAnswer
    <2>3. PICK s \in {200, 500} : Plain(c, s)
      <3>1. PICK s \in {200, 500} : Answered(c, s, FALSE)
        BY <1>9 DEF Buffer
      <3>2. Plain(c, s)
        BY <3>1 DEF Answered, Plain
      <3> QED
        BY <3>2
    <2> QED
      BY <1>b, <2>1, <2>2, <2>3
  <1>10. CASE StreamEnds(c) \/ (Leave(c) /\ pc[c] = "streaming")
    <2>1. /\ pc[c] = "streaming" /\ pc' = [pc EXCEPT ![c] = "over"]
          /\ UNCHANGED <<request, sends, up, answer>>
      BY <1>10 DEF StreamEnds, Leave
    <2>2. pc'[c] = "over"
      BY <1>0, <2>1 DEF ClientTypes
    <2> QED
      BY <1>0, <2>1, <2>2, UnseenByPod
  <1>11. CASE Leave(c) /\ pc[c] # "streaming"
    <2>1. /\ pc[c] \in Handling /\ pc' = [pc EXCEPT ![c] = "over"]
          /\ UNCHANGED <<request, sends, up, answer>>
      BY <1>11 DEF Leave, Suspended, Handling
    <2>2. pc'[c] = "over"
      BY <1>0, <2>1 DEF ClientTypes
    <2>3. Phase(c) \in {"local", "data"} /\ Phase(c)' = "over"
      BY <2>1, <2>2 DEF Phase, Handling
    <2>4. /\ PodPhase[c] \in {"local", "data"}
          /\ PodPhase' = [PodPhase EXCEPT ![c] = "over"]
          /\ PodWaiting' = [PodWaiting EXCEPT ![c] = FALSE]
          /\ UNCHANGED <<PodHeard, PodAnswer>>
      BY <1>0, <2>1, <2>2, <2>3, PodMoves
    <2>5. Pod!Leave(c)
      BY <2>1, <2>4, PodLeaveIs
    <2> QED
      BY <1>a, <2>5
  <1> QED
    BY <1>1, <1>2, <1>3, <1>4, <1>5, <1>6, <1>7, <1>8, <1>9, <1>10, <1>11 DEF ClientStep, Handler

\* A pod keeps its contract whatever the upstream answers: it asks at most twice, a
\* second time only after a 401, and the one answer says what happened.
THEOREM ServerKeepsPodContract == Spec => KeepsPodContract
  <1>1. Init => Pod!Init
    <2> SUFFICES ASSUME Init
                 PROVE  Pod!Init
      OBVIOUS
    <2>1. \A c \in Clients :
            Phase(c) = "idle" /\ pc[c] # "sent" /\ up[c].status = 0 /\ answer[c].status = 0
      BY DEF Init, Phase, Handling, Nothing
    <2>2. sends = [c \in Clients |-> 0]
      BY DEF Init
    <2> QED
      BY <2>1, <2>2 DEF Pod!Init
  <1>2. Inv /\ [Next]_vars => [Pod!Next]_(Pod!vars)
    <2> SUFFICES ASSUME Inv, [Next]_vars
                 PROVE  Pod!Next \/ UNCHANGED Pod!vars
      OBVIOUS
    <2>1. CASE \E c \in Clients : ClientStep(c)
      BY <2>1, PodStepOfOne
    <2>2. CASE Start \/ Signal \/ Exit \/ UNCHANGED vars
      <3>1. UNCHANGED <<pc, request, sends, up, answer>>
        BY <2>2 DEF Start, Signal, Exit, vars
      <3> QED
        BY <3>1 DEF Pod!vars, Phase
    <2> QED
      BY <2>1, <2>2 DEF Next, ClientStep
  <1> QED
    BY <1>1, <1>2, InvAlways, PTL DEF Spec, KeepsPodContract, Pod!Spec
=============================================================================
