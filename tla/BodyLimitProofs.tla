--------------------------- MODULE BodyLimitProofs ---------------------------
(***************************************************************************)
(* Theorems about BodyLimit for every limit, every way to cut a body into  *)
(* chunks, every header and every length of the handler's response.        *)
(***************************************************************************)
EXTENDS BodyLimit, TLAPS

Messages == {"start", "413", "body"}

LEMMA TooLargeFacts ==
    /\ TooLarge \in Seq(Messages)
    /\ Len(TooLarge) = 2
    /\ TooLarge[1] = "413" /\ TooLarge[2] = "body"
    /\ TooLarge # <<>>
  BY DEF TooLarge, Messages

LEMMA LengthType ==
    ASSUME TypeOK PROVE DeclaredLength \in Int
  BY BodyLimitAssumption DEF TypeOK, DeclaredLength

LEMMA AnswerOnceType ==
    ASSUME wire \in Seq(Messages), answered \in BOOLEAN, AnswerOnce
    PROVE  wire' \in Seq(Messages) /\ answered' \in BOOLEAN
<1>1. wire \o TooLarge \in Seq(Messages)
  BY TooLargeFacts
<1>2. CASE answered
  BY <1>2 DEF AnswerOnce
<1>3. CASE ~answered
  <2>1. answered' = TRUE /\ wire' = wire \o TooLarge
    BY <1>3 DEF AnswerOnce
  <2>2. QED
    BY <1>1, <2>1
<1>4. QED
  BY <1>2, <1>3

\* What is sent is always a message.
LEMMA GuardedSendType ==
    ASSUME wire \in Seq(Messages), answered \in BOOLEAN, exceeded \in BOOLEAN,
           NEW message \in Messages, GuardedSend(message)
    PROVE  wire' \in Seq(Messages) /\ answered' \in BOOLEAN
<1>1. CASE ~exceeded
  <2>1. wire' = Append(wire, message) /\ answered' = answered
    BY <1>1 DEF GuardedSend
  <2>2. QED
    BY <2>1
<1>2. CASE exceeded
  BY <1>2, AnswerOnceType DEF GuardedSend
<1>3. QED
  BY <1>1, <1>2

\* The state keeps its types.
THEOREM TypeCorrect == Spec => []TypeOK
<1>1. Init => TypeOK
  <2> SUFFICES ASSUME Init PROVE TypeOK
    OBVIOUS
  <2>1. wire \in Seq({"start", "413", "body"})
    BY DEF Init
  <2>2. parts \in 0..MaxParts
    BY BodyLimitAssumption DEF Init
  <2>3. QED
    BY <2>1, <2>2 DEF Init, TypeOK
<1>2. TypeOK /\ [Next]_vars => TypeOK'
  <2> SUFFICES ASSUME TypeOK, [Next]_vars PROVE TypeOK'
    OBVIOUS
  <2> USE DEF TypeOK
  <2>1. CASE Refuse
    BY <2>1, TooLargeFacts DEF Refuse, Messages
  <2>2. CASE Guard \/ Respond \/ HangUp \/ Return
    BY <2>2 DEF Guard, Respond, HangUp, Return
  <2>3. CASE Receive
    <3>1. PICK n \in Chunks : sent' = sent + n /\ Counted(n)
      BY <2>3 DEF Receive
    <3>2. n \in Nat
      BY BodyLimitAssumption
    <3>3. CASE received + n > MaxBytes
      BY <2>3, <3>1, <3>2, <3>3 DEF Receive, Counted, Cut
    <3>4. CASE ~(received + n > MaxBytes)
      BY <2>3, <3>1, <3>2, <3>4 DEF Receive, Counted, Pass
    <3>5. QED
      BY <3>3, <3>4
  <2>4. CASE SendStart
    <3>1. wire' \in Seq(Messages) /\ answered' \in BOOLEAN
      BY <2>4, GuardedSendType DEF SendStart, Messages
    <3>2. QED
      BY <2>4, <3>1 DEF SendStart, Messages
  <2>5. CASE SendBody
    <3>1. wire' \in Seq(Messages) /\ answered' \in BOOLEAN
      BY <2>5, GuardedSendType DEF SendBody, Messages
    <3>2. QED
      BY <2>5, <3>1, BodyLimitAssumption DEF SendBody, Messages
  <2>6. CASE Catch
    <3>1. wire' \in Seq(Messages) /\ answered' \in BOOLEAN
      <4>1. CASE ~exceeded
        BY <2>6, <4>1 DEF Catch, Messages
      <4>2. CASE exceeded
        BY <2>6, <4>2, AnswerOnceType DEF Catch, Messages
      <4>3. QED
        BY <4>1, <4>2
    <3>2. QED
      BY <2>6, <3>1 DEF Catch, Messages
  <2>7. CASE UNCHANGED vars
    BY <2>7 DEF vars
  <2>8. QED
    BY <2>1, <2>2, <2>3, <2>4, <2>5, <2>6, <2>7 DEF Next, App, Over
<1>3. QED
  BY <1>1, <1>2, PTL DEF Spec

-----------------------------------------------------------------------------
(* The counter: what is sent is counted, and the stream is cut at once. *)

LimitInv == CountInv /\ HandlerWithinLimit

LEMMA LimitInit == Init => LimitInv
  BY BodyLimitAssumption DEF Init, LimitInv, CountInv, HandlerWithinLimit

LEMMA LimitStep == TypeOK /\ LimitInv /\ [Next]_vars => LimitInv'
<1> SUFFICES ASSUME TypeOK, LimitInv, [Next]_vars PROVE LimitInv'
  OBVIOUS
<1> USE BodyLimitAssumption DEF LimitInv, CountInv, HandlerWithinLimit, TypeOK
<1>1. CASE Receive
  <2>1. PICK n \in Chunks : sent' = sent + n /\ Counted(n)
    BY <1>1 DEF Receive
  <2>2. n \in Nat
    OBVIOUS
  <2>3. exceeded = FALSE /\ received <= MaxBytes
    BY <1>1 DEF Receive
  <2>4. CASE received + n > MaxBytes
    BY <1>1, <2>1, <2>2, <2>3, <2>4 DEF Counted, Cut, Receive
  <2>5. CASE ~(received + n > MaxBytes)
    BY <1>1, <2>1, <2>2, <2>3, <2>5 DEF Counted, Pass, Receive
  <2>6. QED
    BY <2>4, <2>5
<1>2. CASE Refuse
  BY <1>2 DEF Refuse
<1>3. CASE Guard \/ Respond \/ HangUp \/ Return
  BY <1>3 DEF Guard, Respond, HangUp, Return
<1>4. CASE SendStart
  BY <1>4 DEF SendStart
<1>5. CASE SendBody
  BY <1>5 DEF SendBody
<1>6. CASE Catch
  BY <1>6 DEF Catch
<1>7. CASE UNCHANGED vars
  BY <1>7 DEF vars
<1>8. QED
  BY <1>1, <1>2, <1>3, <1>4, <1>5, <1>6, <1>7 DEF Next, App, Over

\* However a body arrives, the handler is never given more than the limit.
THEOREM LimitHolds == Spec => []HandlerWithinLimit
<1>1. Spec => []LimitInv
  BY LimitInit, LimitStep, TypeCorrect, PTL DEF Spec
<1>2. LimitInv => HandlerWithinLimit
  BY DEF LimitInv
<1>3. QED
  BY <1>1, <1>2, PTL

-----------------------------------------------------------------------------
(* The wire: one response, and which. *)

LEMMA WireInit == Init => WireInv
  BY LengthType, BodyLimitAssumption DEF Init, WireInv

\* A started response that gets another body message is still one.
LEMMA StillStarted ==
    ASSUME wire \in Seq(Messages), Started, wire' = Append(wire, "body")
    PROVE  Started'
  BY DEF Started, Messages

LEMMA StartedIsNotTooLarge ==
    ASSUME Started PROVE wire # TooLarge
  BY TooLargeFacts DEF Started

LEMMA WireStep == TypeOK /\ LimitInv /\ WireInv /\ [Next]_vars => WireInv'
<1> SUFFICES ASSUME TypeOK, LimitInv, WireInv, [Next]_vars PROVE WireInv'
  OBVIOUS
<1>w. wire \in Seq(Messages)
  BY DEF TypeOK, Messages
<1>d. UNCHANGED length => DeclaredLength' = DeclaredLength
  BY DEF DeclaredLength
<1>e. DeclaredLength \in Int /\ MaxBytes \in Nat
  BY LengthType, BodyLimitAssumption
<1>1. CASE Refuse
  <2>1. ~exceeded /\ ~answered /\ wire' = TooLarge /\ pc' = "done"
    BY <1>1 DEF Refuse, LimitInv, CountInv, WireInv
  <2>2. DeclaredLength' > MaxBytes /\ ~exceeded' /\ ~answered'
    BY <1>1, <1>d, <2>1 DEF Refuse
  <2>3. QED
    BY <2>1, <2>2 DEF WireInv
<1>2. CASE Guard
  BY <1>2, <1>d, <1>e DEF Guard, WireInv
<1>3. CASE Receive
  <2>1. pc' \in {"reading", "cut"} /\ pc = "reading"
    BY <1>3 DEF Receive, Counted, Cut, Pass
  <2>2. wire' = wire /\ answered' = answered /\ DeclaredLength' = DeclaredLength
    BY <1>3, <1>d DEF Receive
  <2>3. QED
    BY <2>1, <2>2 DEF WireInv
<1>4. CASE HangUp \/ Respond
  BY <1>4, <1>d DEF HangUp, Respond, WireInv
<1>5. CASE SendStart
  <2>1. wire = <<>> /\ ~answered /\ DeclaredLength' = DeclaredLength
        /\ DeclaredLength <= MaxBytes /\ exceeded' = exceeded /\ pc' = "streaming"
    BY <1>5, <1>d DEF SendStart, WireInv
  <2>2. CASE exceeded
    <3>1. answered' /\ wire' = TooLarge
      BY <1>5, <2>1, <2>2, TooLargeFacts DEF SendStart, GuardedSend, AnswerOnce
    <3>2. QED
      BY <2>1, <2>2, <3>1 DEF WireInv
  <2>3. CASE ~exceeded
    <3>1. wire' = <<"start">> /\ ~answered'
      BY <1>5, <2>1, <2>3 DEF SendStart, GuardedSend
    <3>2. Started'
      BY <3>1 DEF Started
    <3>3. QED
      BY <2>1, <2>3, <3>1, <3>2 DEF WireInv
  <2>4. QED
    BY <2>2, <2>3
<1>6. CASE SendBody
  <2>1. pc = "streaming" /\ pc' = pc /\ DeclaredLength' = DeclaredLength
        /\ DeclaredLength <= MaxBytes /\ exceeded' = exceeded
    BY <1>6, <1>d DEF SendBody, WireInv
  <2>2. CASE exceeded
    <3>1. answered /\ wire = TooLarge
      BY <2>1, <2>2 DEF WireInv
    <3>2. answered' = answered /\ wire' = wire
      BY <1>6, <2>2, <3>1 DEF SendBody, GuardedSend, AnswerOnce
    <3>3. QED
      BY <2>1, <2>2, <3>1, <3>2 DEF WireInv
  <2>3. CASE ~exceeded
    <3>1. Started /\ ~answered
      BY <2>1, <2>3 DEF WireInv
    <3>2. wire' = Append(wire, "body") /\ answered' = answered
      BY <1>6, <2>3 DEF SendBody, GuardedSend
    <3>3. Started'
      BY <1>w, <3>1, <3>2, StillStarted
    <3>4. QED
      BY <2>1, <2>3, <3>1, <3>2, <3>3 DEF WireInv
  <2>4. QED
    BY <2>2, <2>3
<1>7. CASE Return
  <2>1. pc = "streaming" /\ pc' = "done" /\ DeclaredLength' = DeclaredLength
        /\ DeclaredLength <= MaxBytes
        /\ UNCHANGED <<exceeded, answered, wire>>
    BY <1>7, <1>d DEF Return, WireInv
  <2>2. CASE exceeded
    BY <2>1, <2>2 DEF WireInv
  <2>3. CASE ~exceeded
    <3>1. Started /\ ~answered
      BY <2>1, <2>3 DEF WireInv
    <3>2. wire # TooLarge
      BY <3>1, StartedIsNotTooLarge
    <3>3. Started'
      BY <2>1, <3>1 DEF Started
    <3>4. QED
      BY <1>e, <2>1, <2>3, <3>1, <3>2, <3>3 DEF WireInv
  <2>4. QED
    BY <2>2, <2>3
<1>8. CASE Catch
  <2>1. wire = <<>> /\ ~answered /\ pc = "cut" /\ DeclaredLength' = DeclaredLength
        /\ DeclaredLength <= MaxBytes /\ exceeded' = exceeded
    BY <1>8, <1>d DEF Catch, WireInv
  <2>2. CASE exceeded
    <3>1. answered' /\ wire' = TooLarge /\ pc' = "done"
      BY <1>8, <2>1, <2>2, TooLargeFacts DEF Catch, AnswerOnce
    <3>2. QED
      BY <2>1, <2>2, <3>1 DEF WireInv
  <2>3. CASE ~exceeded
    BY <1>8, <2>1, <2>3 DEF Catch, WireInv
  <2>4. QED
    BY <2>2, <2>3
<1>9. CASE UNCHANGED vars
  <2>1. Started' <=> Started
    BY <1>9 DEF vars, Started
  <2>2. QED
    BY <1>9, <1>d, <2>1 DEF vars, WireInv
<1>10. QED
  BY <1>1, <1>2, <1>3, <1>4, <1>5, <1>6, <1>7, <1>8, <1>9 DEF Next, App, Over

LEMMA WireHolds == Spec => [](TypeOK /\ LimitInv /\ WireInv)
  BY LimitInit, LimitStep, WireInit, WireStep, TypeCorrect, PTL DEF Spec

LEMMA OneStart ==
    ASSUME wire \in Seq(Messages), Started \/ wire = TooLarge
    PROVE  OneResponse
<1>1. CASE Started
  <2>1. Starts = {1}
    BY <1>1 DEF Started, Starts
  <2>2. QED
    BY <1>1, <2>1 DEF OneResponse, Started
<1>2. CASE wire = TooLarge
  <2>1. Starts = {1}
    BY <1>2 DEF TooLarge, Starts
  <2>2. QED
    BY <1>2, <2>1 DEF OneResponse
<1>3. QED
  BY <1>1, <1>2

\* A client is sent one response, and nothing but its own body follows a 413.
THEOREM OneResponseHolds == Spec => []OneResponse
<1>1. TypeOK /\ LimitInv /\ WireInv => OneResponse
  <2> SUFFICES ASSUME TypeOK, LimitInv, WireInv PROVE OneResponse
    OBVIOUS
  <2>1. wire \in Seq(Messages)
    BY DEF TypeOK, Messages
  <2>2. CASE wire = <<>>
    BY <2>2 DEF OneResponse
  <2>3. CASE wire # <<>>
    <3>1. Started \/ wire = TooLarge
      BY <2>3 DEF WireInv, TypeOK
    <3>2. QED
      BY <2>1, <3>1, OneStart
  <2>4. QED
    BY <2>2, <2>3
<1>2. QED
  BY <1>1, WireHolds, PTL

\* A request that is over was answered 413 exactly when it was too large.
THEOREM TooLargeToldHolds == Spec => []TooLargeIsTold
<1>1. TypeOK /\ LimitInv /\ WireInv => TooLargeIsTold
  <2> SUFFICES ASSUME TypeOK, LimitInv, WireInv, pc \in {"done", "raised"}
               PROVE wire = TooLarge <=> sent > MaxBytes \/ DeclaredLength > MaxBytes
    BY DEF TooLargeIsTold
  <2>1. exceeded <=> sent > MaxBytes
    BY DEF LimitInv, CountInv
  <2>2. CASE pc = "raised"
    <3>1. wire # TooLarge
      BY <2>2, TooLargeFacts DEF WireInv
    <3>2. ~exceeded /\ DeclaredLength <= MaxBytes
      BY <2>2 DEF WireInv, LimitInv, CountInv
    <3>3. QED
      BY <2>1, <3>1, <3>2, LengthType, BodyLimitAssumption
  <2>3. CASE pc = "done"
    BY <2>1, <2>3 DEF WireInv
  <2>4. QED
    BY <2>2, <2>3
<1>2. QED
  BY <1>1, WireHolds, PTL
=============================================================================
