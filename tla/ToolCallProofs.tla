---------------------------- MODULE ToolCallProofs ----------------------------
(***************************************************************************)
(* Lemmas about the frame that all tools share: which steps of a call can  *)
(* tell its caller anything, and that what they tell is in the trail.  The *)
(* proofs about the tool modules rest on them.                             *)
(***************************************************************************)
EXTENDS ToolCall, TLAPS

\* A function on the calls, whatever its values.
OnCalls(f) == f = [c \in Calls |-> f[c]]

\* The shapes of the variables of the frame.
CallTypes ==
  /\ OnCalls(phase) /\ OnCalls(exc) /\ OnCalls(answer)
  /\ OnCalls(pending) /\ \A c \in Calls : pending[c][1] = "ok"
  /\ OnCalls(trail) /\ \A c \in Calls : \E R : trail[c] \in Seq(R)

\* Whether the records of a call bear out the answer a.
Borne(c, a) ==
  /\ a \in {"ok", "error"} =>
       /\ trail[c] # <<>>
       /\ (a = "ok") = (Last(c).result[1] = "ok")
       /\ Last(c).kept \/ "append" \in faults
       /\ Last(c).result[1] = "denied" => ClassOf(Last(c).result, Last(c).exc) # "other"
  /\ a = "raised" => "dirs" \in faults

\* A call is answered when it is done, and never before.
Told(c) == answer[c] # "none" => phase[c] = "done" /\ Borne(c, answer[c])

TellInv == CallTypes /\ \A c \in Calls : Told(c)

LEMMA EmptyTrail == <<>> \in Seq({})
OBVIOUS

LEMMA TellInvInit == CallInit => TellInv
<1> SUFFICES ASSUME CallInit PROVE TellInv
  OBVIOUS
<1>1. /\ OnCalls(phase) /\ OnCalls(exc) /\ OnCalls(answer) /\ OnCalls(pending)
      /\ OnCalls(trail) /\ \A c \in Calls : pending[c][1] = "ok"
  BY DEF CallInit, OnCalls
<1>2. \A c \in Calls : trail[c] \in Seq({})
  BY EmptyTrail DEF CallInit
<1>3. \A c \in Calls : Told(c)
  BY DEF CallInit, Told
<1> QED
  BY <1>1, <1>2, <1>3 DEF TellInv, CallTypes

LEMMA TellInvTells == TellInv => AnswersTold
BY DEF TellInv, Told, Borne, AnswersTold

(***************************************************************************)
(* The trail                                                               *)
(***************************************************************************)

\* The record that was appended last is the last one.
LEMMA LastAppended ==
  ASSUME NEW S, NEW s \in Seq(S), NEW r
  PROVE  /\ Append(s, r) \in Seq(S \union {r}) /\ Append(s, r) # <<>>
         /\ Append(s, r)[Len(Append(s, r))] = r
         /\ \A i \in DOMAIN s : i \in DOMAIN Append(s, r) /\ Append(s, r)[i] = s[i]
         /\ \A i \in DOMAIN Append(s, r) : i \in DOMAIN s \/ Append(s, r)[i] = r
OBVIOUS

\* A record of that result and exception, in the file or failed to be.
IsRecord(r, result, e) ==
  r.result = result /\ r.exc = e /\ (r.kept \/ "append" \in faults)

LEMMA RecordsFit == \A result, e : \A r \in AuditRecords(result, e) : IsRecord(r, result, e)
BY DEF AuditRecords, IsRecord

\* A record is added at the end of a call's trail and nowhere else.
LEMMA WrittenIsLast ==
  ASSUME CallTypes, NEW c \in Calls, NEW result, NEW e, Written(c, result, e)
  PROVE  /\ OnCalls(trail)' /\ \A d \in Calls : \E R : trail'[d] \in Seq(R)
         /\ trail'[c] # <<>>
         /\ IsRecord(Last(c)', result, e)
         /\ \A d \in Calls \ {c} : trail'[d] = trail[d]
         /\ \A i \in DOMAIN trail[c] : i \in DOMAIN trail'[c] /\ trail'[c][i] = trail[c][i]
         /\ \A i \in DOMAIN trail'[c] :
              \/ i \in DOMAIN trail[c] /\ trail'[c][i] = trail[c][i]
              \/ IsRecord(trail'[c][i], result, e)
         /\ \E i \in DOMAIN trail'[c] : IsRecord(trail'[c][i], result, e)
<1> PICK r \in AuditRecords(result, e) : trail' = [trail EXCEPT ![c] = Append(@, r)]
  BY DEF Written
<1>0. IsRecord(r, result, e)
  BY RecordsFit
<1>1. PICK R : trail[c] \in Seq(R)
  BY DEF CallTypes
<1>2. trail'[c] = Append(trail[c], r) /\ \A d \in Calls \ {c} : trail'[d] = trail[d]
  BY DEF CallTypes, OnCalls
<1>3. /\ trail'[c] \in Seq(R \union {r}) /\ trail'[c] # <<>> /\ trail'[c][Len(trail'[c])] = r
      /\ \A i \in DOMAIN trail[c] : i \in DOMAIN trail'[c] /\ trail'[c][i] = trail[c][i]
      /\ \A i \in DOMAIN trail'[c] : i \in DOMAIN trail[c] \/ trail'[c][i] = r
  BY <1>1, <1>2, LastAppended
<1>4. OnCalls(trail)'
  BY DEF CallTypes, OnCalls
<1>5. \A d \in Calls : \E S : trail'[d] \in Seq(S)
  BY <1>2, <1>3 DEF CallTypes
<1>6. Len(trail'[c]) \in DOMAIN trail'[c]
  BY <1>3
<1> QED
  BY <1>0, <1>2, <1>3, <1>4, <1>5, <1>6 DEF Last

(***************************************************************************)
(* What the steps of a call tell                                           *)
(***************************************************************************)

\* A call alone moves.
Alone(c) ==
  /\ UNCHANGED faults
  /\ \E p : Goto(c, p)
  /\ exc' = exc \/ \E e : exc' = [exc EXCEPT ![c] = e]

\* A step inside a body says nothing to anybody.
Silent(c) ==
  /\ Alone(c)
  /\ phase[c] # "done"
  /\ UNCHANGED <<pending, answer, trail>>

LEMMA AloneKeeps ==
  ASSUME CallTypes, NEW c \in Calls, Alone(c)
  PROVE  /\ OnCalls(phase)' /\ OnCalls(exc)'
         /\ \A d \in Calls \ {c} : phase'[d] = phase[d] /\ exc'[d] = exc[d]
BY DEF CallTypes, Alone, Goto, OnCalls

\* It is enough to look at the call that moves.
LEMMA OneTells ==
  ASSUME TellInv, NEW c \in Calls, Alone(c), OnCalls(answer)', OnCalls(trail)',
         UNCHANGED pending, \A d \in Calls : \E R : trail'[d] \in Seq(R),
         \A d \in Calls \ {c} : answer'[d] = answer[d] /\ trail'[d] = trail[d],
         Told(c)'
  PROVE  TellInv'
<1>1. /\ OnCalls(phase)' /\ OnCalls(exc)' /\ UNCHANGED faults
      /\ \A d \in Calls \ {c} : phase'[d] = phase[d]
  BY AloneKeeps DEF TellInv, Alone
<1>2. CallTypes'
  BY <1>1 DEF TellInv, CallTypes
<1>3. \A d \in Calls \ {c} : Told(d)'
  BY <1>1 DEF TellInv, Told, Borne, Last
<1> QED
  BY <1>2, <1>3 DEF TellInv

LEMMA SilentTells ==
  ASSUME TellInv, NEW c \in Calls, Silent(c)
  PROVE  TellInv'
<1>1. answer[c] = "none"
  BY DEF TellInv, Told, Silent
<1>2. Told(c)'
  BY <1>1 DEF Told, Silent
<1> QED
  BY <1>2, OneTells DEF TellInv, CallTypes, Silent

LEMMA RaiseSilent ==
  ASSUME NEW c \in Calls, NEW e, Raise(c, e), phase[c] # "done",
         UNCHANGED <<faults, pending, answer, trail>>
  PROVE  Silent(c)
BY DEF Raise, Silent, Alone

\* A step that ends with a record of r and the answer a it bears out.
LEMMA RecordTells ==
  ASSUME TellInv, NEW c \in Calls, NEW result, NEW e, NEW a \in {"ok", "error"},
         Alone(c), Written(c, result, e), Tell(c, a), Goto(c, "done"), UNCHANGED pending,
         (a = "ok") = (result[1] = "ok"),
         result[1] = "denied" => ClassOf(result, e) # "other"
  PROVE  TellInv'
<1>0. CallTypes
  BY DEF TellInv
<1>1. /\ OnCalls(answer)' /\ answer'[c] = a /\ \A d \in Calls \ {c} : answer'[d] = answer[d]
      /\ phase'[c] = "done"
  BY <1>0 DEF CallTypes, Tell, Goto, OnCalls
<1>2. /\ OnCalls(trail)' /\ \A d \in Calls : \E R : trail'[d] \in Seq(R)
      /\ trail'[c] # <<>> /\ IsRecord(Last(c)', result, e)
      /\ \A d \in Calls \ {c} : trail'[d] = trail[d]
  BY <1>0, WrittenIsLast
<1>3. Last(c)'.result = result /\ Last(c)'.exc = e /\ (Last(c)'.kept \/ "append" \in faults')
  BY <1>2 DEF IsRecord, Alone
<1>4. Borne(c, a)'
  BY <1>2, <1>3 DEF Borne
<1>5. Told(c)'
  BY <1>1, <1>4 DEF Told
<1> QED
  BY <1>1, <1>2, <1>5, OneTells

\* The error escapes: only without a place for the record.
LEMMA EscapeTells ==
  ASSUME TellInv, NEW c \in Calls, Alone(c), "dirs" \in faults,
         Tell(c, "raised"), Goto(c, "done"), UNCHANGED <<trail, pending>>
  PROVE  TellInv'
<1>1. /\ OnCalls(answer)' /\ answer'[c] = "raised" /\ \A d \in Calls \ {c} : answer'[d] = answer[d]
      /\ phase'[c] = "done"
  BY DEF TellInv, CallTypes, Tell, Goto, OnCalls
<1>2. Told(c)'
  BY <1>1 DEF Told, Borne, Alone
<1> QED
  BY <1>1, <1>2, OneTells DEF TellInv, CallTypes

LEMMA RejectionTells ==
  ASSUME TellInv, NEW c \in Calls, NEW class \in ReasonClasses \ {"other"},
         audit_rejection(c, class)
  PROVE  TellInv'
<1>1. Alone(c) /\ Goto(c, "done") /\ UNCHANGED pending
  BY DEF audit_rejection, Alone
<1>2. CASE Written(c, <<"denied", class>>, "none") /\ Tell(c, "error")
  <2>1. ClassOf(<<"denied", class>>, "none") = class
    BY DEF ClassOf, ByType
  <2> QED
    BY <1>1, <1>2, <2>1, RecordTells
<1>3. CASE "dirs" \in faults /\ Tell(c, "raised") /\ UNCHANGED trail
  BY <1>1, <1>3, EscapeTells
<1> QED
  BY <1>2, <1>3 DEF audit_rejection

LEMMA ErrorResultFits ==
  ASSUME NEW e
  PROVE  /\ ErrorResult(e)[1] \in {"denied", "error"}
         /\ ErrorResult(e)[1] = "denied" => ClassOf(ErrorResult(e), e) # "other"
<1>1. DOMAIN Denials = {"WriteGlobDenied", "NotOwned"}
  BY DEF Denials
<1>2. /\ "WriteGlobDenied" \in DOMAIN ByType /\ ByType["WriteGlobDenied"] = "write_glob_denied"
      /\ "NotOwned" \in DOMAIN ByType /\ ByType["NotOwned"] = "not_owned"
  BY DEF ByType
<1>3. CASE e \in DOMAIN Denials
  <2>1. ErrorResult(e) = <<"denied", Denials[e]>>
    BY <1>3 DEF ErrorResult
  <2>2. ClassOf(ErrorResult(e), e) = ByType[e]
    BY <1>1, <1>2, <1>3, <2>1 DEF ClassOf
  <2> QED
    BY <1>1, <1>2, <1>3, <2>1, <2>2
<1>4. CASE e \notin DOMAIN Denials
  BY <1>4 DEF ErrorResult
<1> QED
  BY <1>3, <1>4

LEMMA FinishTells ==
  ASSUME TellInv, NEW c \in Calls, FinishOk(c) \/ FinishError(c)
  PROVE  TellInv'
<1>1. CASE FinishOk(c)
  <2>1. phase[c] = "finish" /\ UNCHANGED <<faults, pending>> /\ pending[c][1] = "ok"
    BY <1>1 DEF FinishOk, TellInv, CallTypes
  <2>2. CASE /\ Written(c, pending[c], "none") /\ Goto(c, "done") /\ Tell(c, "ok")
             /\ UNCHANGED exc
    BY <2>1, <2>2, RecordTells DEF Alone
  <2>3. CASE "dirs" \in faults /\ Raise(c, "OSError") /\ UNCHANGED <<trail, answer>>
    BY <2>1, <2>3, RaiseSilent, SilentTells
  <2> QED
    BY <1>1, <2>2, <2>3 DEF FinishOk
<1>2. CASE FinishError(c)
  <2>1. Alone(c) /\ Goto(c, "done") /\ UNCHANGED pending
    BY <1>2 DEF FinishError, Alone
  <2>2. CASE Written(c, ErrorResult(exc[c]), exc[c]) /\ Tell(c, "error")
    BY <2>1, <2>2, ErrorResultFits, RecordTells
  <2>3. CASE "dirs" \in faults /\ Tell(c, "raised") /\ UNCHANGED trail
    BY <2>1, <2>3, EscapeTells
  <2> QED
    BY <1>2, <2>2, <2>3 DEF FinishError
<1> QED
  BY <1>1, <1>2

LEMMA AnswerTells ==
  ASSUME TellInv, NEW c \in Calls, NEW detail, phase[c] # "done", AnswerInBody(c, detail)
  PROVE  TellInv'
<1>1. CASE /\ Written(c, <<"error", detail>>, "none") /\ Goto(c, "done")
           /\ Tell(c, "error") /\ UNCHANGED exc
  BY <1>1, RecordTells DEF AnswerInBody, Alone
<1>2. CASE "dirs" \in faults /\ Raise(c, "OSError") /\ UNCHANGED <<trail, answer>>
  BY <1>2, RaiseSilent, SilentTells DEF AnswerInBody
<1> QED
  BY <1>1, <1>2 DEF AnswerInBody

LEMMA VanishTells ==
  ASSUME TellInv, NEW c \in Calls, Vanish(c)
  PROVE  TellInv'
BY SilentTells DEF Vanish, Silent, Alone, Ended

LEMMA EnterTells ==
  ASSUME TellInv, NEW c \in Calls, NEW p, Enter(c, p)
  PROVE  TellInv'
BY SilentTells DEF Enter, Silent, Alone
===============================================================================
