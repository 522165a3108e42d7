-------------------------- MODULE SecretAgentProofs --------------------------
(***************************************************************************)
(* Theorems about SecretAgent for every set of profiles and devices, every *)
(* form of call and every number of calls: whatever order the nested       *)
(* handlers, the answers, the timers and the screen lock take.             *)
(***************************************************************************)
EXTENDS SecretAgent, TLAPS

-----------------------------------------------------------------------------
(* Types.                                                                  *)

Words == {"password", "cancel", "timeout"}

\* The ids of the profiles are keys of m_waitingRequests.
LEMMA IdTypes == \A c \in Conns : IdOf(c) \in Ids
  BY ConnsAssumption DEF IdOf, Ids

\* The null pointer is no call.
LEMMA NoCallIsNone == NoCall \notin Calls
  BY NullAssumption DEF Calls

\* Requests, replies and answers the actions build are well formed.
LEMMA RecordTypes ==
  /\ NoRequest \in Request
  /\ \A c \in Conns, p \in Prompts, t \in Timers :
       [NoRequest EXCEPT !.conn = c, !.prompt = p, !.timer = t] \in Request
  /\ \A r \in Request, c \in Conns : [r EXCEPT !.conn = c] \in Request
  /\ \A r \in Request, t \in Timers : [r EXCEPT !.timer = t] \in Request
  /\ \A r \in Request : [r EXCEPT !.exiting = TRUE] \in Request
  /\ \A o \in Outcomes : Replied(o) \in Reply
  BY DEF NoRequest, Request, Prompts, Timers, Replied, Reply

\* quit() keeps a request well formed.
LEMMA QuitTypes ==
  \A r \in Request, word \in Words, at \in Calls :
    /\ Quit(r, word, at) \in Request
    /\ Quit(r, word, at).conn = r.conn /\ Quit(r, word, at).prompt = r.prompt
    /\ Quit(r, word, at).timer = r.timer
    /\ Quit(r, word, at).canceled <=> word # "password"
    /\ Quit(r, word, at).exiting <=> r.exiting \/ r.prompt = "panel"
    /\ Quit(r, word, at).at = IF word = "timeout" THEN NoCall ELSE at
<1> SUFFICES ASSUME NEW r \in Request, NEW word \in Words, NEW at \in Calls
             PROVE  /\ Quit(r, word, at) \in Request
                    /\ Quit(r, word, at).conn = r.conn /\ Quit(r, word, at).prompt = r.prompt
                    /\ Quit(r, word, at).timer = r.timer
                    /\ Quit(r, word, at).canceled <=> word # "password"
                    /\ Quit(r, word, at).exiting <=> r.exiting \/ r.prompt = "panel"
                    /\ Quit(r, word, at).at = IF word = "timeout" THEN NoCall ELSE at
  OBVIOUS
<1> DEFINE a == IF word = "timeout" THEN NoCall ELSE at
           b == word # "password"
           e == r.exiting \/ r.prompt = "panel"
<1>1. a \in Calls \cup {NoCall} /\ b \in BOOLEAN /\ e \in BOOLEAN
  BY DEF Request
<1>2. Quit(r, word, at) = [r EXCEPT !.at = a, !.canceled = b, !.exiting = e]
  BY DEF Quit
<1> HIDE DEF a, b, e
<1>3. /\ [r EXCEPT !.at = a, !.canceled = b, !.exiting = e] \in Request
      /\ [r EXCEPT !.at = a, !.canceled = b, !.exiting = e].conn = r.conn
      /\ [r EXCEPT !.at = a, !.canceled = b, !.exiting = e].prompt = r.prompt
      /\ [r EXCEPT !.at = a, !.canceled = b, !.exiting = e].timer = r.timer
      /\ [r EXCEPT !.at = a, !.canceled = b, !.exiting = e].canceled = b
      /\ [r EXCEPT !.at = a, !.canceled = b, !.exiting = e].exiting = e
      /\ [r EXCEPT !.at = a, !.canceled = b, !.exiting = e].at = a
  BY <1>1 DEF Request
<1>4. QED
  BY <1>2, <1>3 DEF a, b, e

\* What a request says is a reply.
LEMMA VerdictTypes ==
  \A r \in Request : /\ Verdict(r) \in Reply /\ Verdict(r).at = r.at
                     /\ Verdict(r).outcome = IF r.canceled THEN "UserCanceled" ELSE "password"
  BY DEF Verdict, Request, Reply, Outcomes

\* What a call is answered without a prompt is an outcome.
LEMMA OutcomeTypes ==
  \A c, in : Outcome(c, in) \in Outcomes \cup {"prompt"} /\ Outcome(c, in) # "password"
  BY DEF Outcome, Outcomes

\* The end of a handler gives a reply and leaves the keyring a set of profiles.
LEMMA FinishTypes ==
  ASSUME TypeOK, NEW n \in Calls, NEW c \in Conns, NEW answer \in Reply, Finish(n, c, answer)
  PROVE  reply' \in [Calls -> Reply] /\ keyring' \subseteq Conns
<1>1. Replied("InternalError") \in Reply
  BY RecordTypes DEF Outcomes
<1>2. reply \in [Calls -> Reply] /\ keyring \subseteq Conns
  BY DEF TypeOK
<1>3. CASE reply' = [reply EXCEPT ![n] = answer]
             /\ keyring' = IF answer.outcome \in {"password", "stored"}
                           THEN keyring \cup ({c} \cap AgentOwned) ELSE keyring
  BY <1>2, <1>3
<1>4. CASE reply' = [reply EXCEPT ![n] = Replied("InternalError")] /\ UNCHANGED keyring
  BY <1>1, <1>2, <1>4
<1>5. QED
  BY <1>3, <1>4 DEF Finish

\* Suspending a handler keeps the types.
LEMMA SuspendTypes ==
  ASSUME TypeOK, NEW c \in Conns, NEW p \in Prompts, arrived < MaxCalls, Suspend(c, p)
  PROVE  /\ arrived' \in 0 .. MaxCalls /\ suspended' \subseteq 1 .. arrived'
         /\ arrived + 1 \in Calls
         /\ request' \in [Calls -> Request]
         /\ m_waitingRequests' \in [Ids -> Calls \cup {NoCall}]
<1>1. arrived \in Nat /\ MaxCalls \in Nat /\ arrived + 1 \in Calls /\ arrived + 1 \in 1 .. arrived + 1
  BY BoundAssumption DEF TypeOK, Calls
<1>2. [NoRequest EXCEPT !.conn = c, !.prompt = p, !.timer = "runs"] \in Request
  BY RecordTypes DEF Timers
<1>3. suspended' \subseteq 1 .. arrived + 1
  BY <1>1 DEF TypeOK, Suspend
<1>4. QED
  BY <1>1, <1>2, <1>3, IdTypes DEF TypeOK, Suspend, Calls

\* What it is for call n to be told a word when the requests are those of rs.
Told(n, word, at, rs) ==
  /\ request' \in [Calls -> Request]
  /\ \A k \in Calls : /\ request'[k].conn = rs[k].conn /\ request'[k].prompt = rs[k].prompt
                      /\ request'[k].timer = rs[k].timer
                      /\ request'[k].exiting <=> rs[k].exiting \/ (k = n /\ rs[k].prompt = "panel")
  /\ \A k \in Calls \ {n} : /\ request'[k] = rs[k] /\ said'[k] = said[k]
                            /\ k \in timedOut' <=> k \in timedOut
  /\ n \in Calls =>
       /\ request'[n].canceled <=> word # "password"
       /\ request'[n].at = IF word = "timeout" THEN NoCall ELSE at
       /\ said'[n] = IF word = "timeout" THEN said[n] ELSE word
       /\ n \in timedOut' <=> n \in timedOut \/ word = "timeout"

\* Tells does that, and keeps the types.
LEMMA TellsEffect ==
  ASSUME TypeOK, NEW n \in Calls \cup {NoCall}, NEW word \in Words, NEW at \in Calls,
         NEW rs \in [Calls -> Request], Tells(n, word, at, rs)
  PROVE  /\ Told(n, word, at, rs)
         /\ said' \in [Calls -> {"nothing", "password", "cancel"}] /\ timedOut' \subseteq Calls
<1>1. said \in [Calls -> {"nothing", "password", "cancel"}] /\ timedOut \subseteq Calls
  BY DEF TypeOK
<1>2. CASE n = NoCall
  BY <1>1, <1>2, NoCallIsNone DEF Tells, Told
<1>3. CASE n \in Calls
  <2> DEFINE q == Quit(rs[n], word, at)
  <2>1. /\ q \in Request /\ q.conn = rs[n].conn /\ q.prompt = rs[n].prompt /\ q.timer = rs[n].timer
        /\ q.canceled <=> word # "password"
        /\ q.exiting <=> rs[n].exiting \/ rs[n].prompt = "panel"
        /\ q.at = IF word = "timeout" THEN NoCall ELSE at
    BY <1>3, QuitTypes
  <2>2. /\ request' = [rs EXCEPT ![n] = q]
        /\ said' = IF word = "timeout" THEN said ELSE [said EXCEPT ![n] = word]
        /\ timedOut' = IF word = "timeout" THEN timedOut \cup {n} ELSE timedOut
    BY <1>3, NoCallIsNone DEF Tells
  <2> HIDE DEF q
  <2>3. request' \in [Calls -> Request] /\ request'[n] = q /\ \A k \in Calls \ {n} : request'[k] = rs[k]
    BY <1>3, <2>1, <2>2
  <2>4. /\ said' \in [Calls -> {"nothing", "password", "cancel"}] /\ timedOut' \subseteq Calls
        /\ said'[n] = IF word = "timeout" THEN said[n] ELSE word
        /\ \A k \in Calls \ {n} : said'[k] = said[k] /\ (k \in timedOut' <=> k \in timedOut)
        /\ n \in timedOut' <=> n \in timedOut \/ word = "timeout"
    BY <1>1, <1>3, <2>2 DEF Words
  <2>5. QED
    BY <1>3, <2>1, <2>3, <2>4 DEF Told
<1>4. QED
  BY <1>2, <1>3

\* A closed dialog's requests.
LEMMA ClosedEffect ==
  ASSUME TypeOK, NEW d \in Calls
  PROVE  /\ Closed(d) \in [Calls -> Request]
         /\ \A k \in Calls \ {d} : Closed(d)[k] = request[k]
         /\ Closed(d)[d].conn = request[d].conn /\ Closed(d)[d].prompt = request[d].prompt
         /\ Closed(d)[d].at = request[d].at /\ Closed(d)[d].canceled = request[d].canceled
         /\ Closed(d)[d].exiting /\ Closed(d)[d].timer = "off"
<1>1. request \in [Calls -> Request]
  BY DEF TypeOK
<1> DEFINE r == [request[d] EXCEPT !.exiting = TRUE, !.timer = "off"]
<1>2. Closed(d) = [request EXCEPT ![d] = r]
  BY <1>1 DEF Closed
<1>3. r \in Request /\ r.conn = request[d].conn /\ r.prompt = request[d].prompt
      /\ r.at = request[d].at /\ r.canceled = request[d].canceled /\ r.exiting /\ r.timer = "off"
  BY <1>1 DEF Request, Timers
<1> HIDE DEF r
<1>4. QED
  BY <1>1, <1>2, <1>3

\* A request whose timer is set differently.
LEMMA TimerEffect ==
  ASSUME TypeOK, NEW d \in Calls, NEW t \in Timers
  PROVE  LET rs == [request EXCEPT ![d].timer = t] IN
         /\ rs \in [Calls -> Request]
         /\ \A k \in Calls \ {d} : rs[k] = request[k]
         /\ rs[d].conn = request[d].conn /\ rs[d].prompt = request[d].prompt
         /\ rs[d].at = request[d].at /\ rs[d].canceled = request[d].canceled
         /\ rs[d].exiting = request[d].exiting /\ rs[d].timer = t
<1>1. request \in [Calls -> Request]
  BY DEF TypeOK
<1> DEFINE r == [request[d] EXCEPT !.timer = t]
<1>2. [request EXCEPT ![d].timer = t] = [request EXCEPT ![d] = r]
  BY <1>1
<1>3. r \in Request /\ r.conn = request[d].conn /\ r.prompt = request[d].prompt
      /\ r.at = request[d].at /\ r.canceled = request[d].canceled
      /\ r.exiting = request[d].exiting /\ r.timer = t
  BY <1>1 DEF Request
<1> HIDE DEF r
<1>4. QED
  BY <1>1, <1>2, <1>3

\* A message of the panel is well formed, and its id is looked up.
LEMMA PanelAnswerTypes ==
  ASSUME TypeOK, PanelAnswer
  PROVE  /\ Head(answers) \in Answer /\ answers' \in Seq(Answer)
         /\ Head(answers).id \in Ids /\ Head(answers).word \in {"password", "cancel"}
         /\ Head(answers).at \in Calls
         /\ m_waitingRequests[Head(answers).id] \in Calls \cup {NoCall}
<1>1. answers \in Seq(Answer) /\ answers # <<>> /\ answers' = Tail(answers)
  BY DEF TypeOK, PanelAnswer
<1>2. Head(answers) \in Answer /\ answers' \in Seq(Answer)
  BY <1>1
<1>3. Head(answers).id \in Ids /\ Head(answers).word \in {"password", "cancel"} /\ Head(answers).at \in Calls
  BY <1>2 DEF Answer
<1>4. QED
  BY <1>2, <1>3 DEF TypeOK

\* TypeOK is kept by every step, since a suspended call has a profile.
LEMMA TypeStep == TypeOK /\ OpenPrompts /\ [Next]_vars => TypeOK'
<1> SUFFICES ASSUME TypeOK, OpenPrompts, [Next]_vars PROVE TypeOK'
  OBVIOUS
<1> USE DEF Calls
<1>1. ASSUME NEW c \in Conns, NEW in \in Inputs, GetSecretsAtOnce(c, in) PROVE TypeOK'
  <2>1. arrived + 1 \in Calls /\ arrived' \in 0 .. MaxCalls /\ suspended' \subseteq 1 .. arrived'
    BY <1>1, BoundAssumption DEF TypeOK, GetSecretsAtOnce
  <2>2. request' \in [Calls -> Request]
    BY <1>1, <2>1, RecordTypes DEF TypeOK, GetSecretsAtOnce
  <2>3. Replied(Outcome(c, in)) \in Reply
    BY <1>1, OutcomeTypes, RecordTypes DEF GetSecretsAtOnce
  <2>4. reply' \in [Calls -> Reply] /\ keyring' \subseteq Conns
    <3>1. CASE Asks(c, in)
      BY <1>1, <2>1, <2>3, <3>1, FinishTypes DEF GetSecretsAtOnce
    <3>2. CASE ~Asks(c, in)
      BY <1>1, <2>1, <2>3, <3>2 DEF GetSecretsAtOnce, TypeOK
    <3>3. QED
      BY <3>1, <3>2
  <2>5. QED
    BY <1>1, <2>1, <2>2, <2>4 DEF TypeOK, GetSecretsAtOnce, panelVars, history
<1>2. ASSUME NEW c \in Conns, NEW in \in Inputs, GetSecretsPanel(c, in) PROVE TypeOK'
  <2>1. m_currentWirelessDevice' \in Devices
    BY <1>2, ConnsAssumption DEF TypeOK, GetSecretsPanel, ShowPasswordError
  <2>2. /\ arrived' \in 0 .. MaxCalls /\ suspended' \subseteq 1 .. arrived' /\ arrived + 1 \in Calls
        /\ request' \in [Calls -> Request] /\ m_waitingRequests' \in [Ids -> Calls \cup {NoCall}]
    BY <1>2, SuspendTypes DEF GetSecretsPanel, Prompts
  <2>3. waitingForPassword' \in [Conns -> Calls \cup {NoCall}] /\ answers' = answers
    BY <1>2, <2>2 DEF TypeOK, GetSecretsPanel, ShowPasswordError
  <2>4. QED
    BY <1>2, <2>1, <2>2, <2>3 DEF TypeOK, GetSecretsPanel, Suspend, history
<1>3. ASSUME NEW c \in Conns, NEW in \in Inputs, GetSecretsDialog(c, in) PROVE TypeOK'
  BY <1>3, SuspendTypes DEF TypeOK, GetSecretsDialog, Suspend, panelVars, history, Prompts
<1>4. ASSUME NEW c \in Conns, SaveSecrets(c) \/ DeleteSecrets(c) PROVE TypeOK'
  BY <1>4 DEF TypeOK, SaveSecrets, DeleteSecrets, panelVars, history
<1>5. ASSUME NEW n \in Calls, Resume(n) PROVE TypeOK'
  <2>1. request[n].conn \in Conns /\ Verdict(request[n]) \in Reply
    BY <1>5, VerdictTypes DEF Resume, Innermost, OpenPrompts, TypeOK
  <2>2. reply' \in [Calls -> Reply] /\ keyring' \subseteq Conns
    BY <1>5, <2>1, FinishTypes DEF Resume
  <2>3. request' \in [Calls -> Request] /\ m_waitingRequests' \in [Ids -> Calls \cup {NoCall}]
    BY <1>5, RecordTypes DEF Resume, TypeOK, Timers
  <2>4. QED
    BY <1>5, <2>2, <2>3 DEF TypeOK, Resume, panelVars, history
<1>6. ASSUME NEW n \in Calls, ResumeDeleted(n) PROVE TypeOK'
  <2>1. request[n].conn \in Conns /\ Verdict(request[n]) \in Reply
    BY <1>6, VerdictTypes DEF ResumeDeleted, Innermost, OpenPrompts, TypeOK
  <2>2. reply' \in [Calls -> Reply] /\ keyring' \subseteq Conns /\ agent' \in {"up", "none", "crashed"}
    BY <1>6, <2>1, FinishTypes DEF ResumeDeleted, TypeOK
  <2>3. request' \in [Calls -> Request]
    BY <1>6, RecordTypes DEF ResumeDeleted, TypeOK, Timers
  <2>4. QED
    BY <1>6, <2>2, <2>3 DEF TypeOK, ResumeDeleted, panelVars, history
<1>7. ASSUME NEW n \in Calls, TimerFires(n) PROVE TypeOK'
  <2>1. IdOf(request[n].conn) \in Ids /\ m_waitingRequests[IdOf(request[n].conn)] \in Calls \cup {NoCall}
    BY <1>7, IdTypes DEF TimerFires, OpenPrompts, TypeOK
  <2>2. request' \in [Calls -> Request] /\ timedOut' \subseteq Calls
        /\ said' \in [Calls -> {"nothing", "password", "cancel"}]
    <3>1. CASE request[n].prompt = "panel"
      <4>1. [request EXCEPT ![n].timer = "off"] \in [Calls -> Request]
        BY TimerEffect DEF Timers
      <4>2. QED
        BY <1>7, <3>1, <4>1, TellsEffect DEF TimerFires, Words, Told
    <3>2. CASE request[n].prompt # "panel"
      BY <1>7, <2>1, <3>2, ClosedEffect, TellsEffect DEF TimerFires, Words, Told
    <3>3. QED
      BY <3>1, <3>2
  <2>3. QED
    BY <1>7, <2>2 DEF TypeOK, TimerFires, panelVars
<1>8. CASE PanelAnswer
  <2>1. request' \in [Calls -> Request] /\ timedOut' \subseteq Calls
        /\ said' \in [Calls -> {"nothing", "password", "cancel"}]
    <3>1. request \in [Calls -> Request]
      BY DEF TypeOK
    <3>2. QED
      BY <1>8, <3>1, PanelAnswerTypes, TellsEffect DEF PanelAnswer, Words, Told
  <2>2. QED
    BY <1>8, <2>1, PanelAnswerTypes DEF TypeOK, PanelAnswer
<1>9. ASSUME NEW n \in Calls, NEW word \in {"password", "cancel"}, DialogAnswer(n, word) PROVE TypeOK'
  <2>1. IdOf(request[n].conn) \in Ids /\ m_waitingRequests[IdOf(request[n].conn)] \in Calls \cup {NoCall}
    BY <1>9, IdTypes DEF DialogAnswer, Front, Open, OpenPrompts, TypeOK
  <2>2. request' \in [Calls -> Request] /\ timedOut' \subseteq Calls /\ agent' \in {"up", "none", "crashed"}
        /\ said' \in [Calls -> {"nothing", "password", "cancel"}]
    <3>1. CASE agent = "none" /\ word = "password"
      <4>1. agent' = "crashed" /\ UNCHANGED <<request, said, timedOut>>
        BY <1>9, <3>1 DEF DialogAnswer
      <4>2. QED
        BY <4>1 DEF TypeOK
    <3>2. CASE ~(agent = "none" /\ word = "password")
      <4>1. Tells(m_waitingRequests[IdOf(request[n].conn)], word, n, Closed(n)) /\ agent' = agent
        BY <1>9, <3>2 DEF DialogAnswer
      <4>2. Told(m_waitingRequests[IdOf(request[n].conn)], word, n, Closed(n))
            /\ said' \in [Calls -> {"nothing", "password", "cancel"}] /\ timedOut' \subseteq Calls
        BY <2>1, <4>1, ClosedEffect, TellsEffect DEF Words
      <4>3. QED
        BY <4>1, <4>2 DEF Told, TypeOK
    <3>3. QED
      BY <3>1, <3>2
  <2>3. QED
    BY <1>9, <2>2 DEF TypeOK, DialogAnswer, panelVars
<1>10. ASSUME NEW n \in Calls, DialogEdited(n) PROVE TypeOK'
  <2>1. request' \in [Calls -> Request]
    <3>1. PICK t \in Timers : request' = [request EXCEPT ![n].timer = t]
      <4>1. request' = [request EXCEPT ![n].timer = IF request[n].timer = "runs" THEN "restarts" ELSE "runs"]
        BY <1>10 DEF DialogEdited, TypeOK
      <4>2. QED
        BY <4>1 DEF Timers
    <3>2. QED
      BY <3>1, RecordTypes DEF TypeOK
  <2>2. QED
    BY <1>10, <2>1 DEF TypeOK, DialogEdited, panelVars, history
<1>11. ASSUME NEW c \in Conns, NEW word \in {"password", "cancel"}, PanelSends(c, word) PROVE TypeOK'
  <2>1. waitingForPassword[c] \in Calls
    BY <1>11 DEF TypeOK, PanelSends
  <2>2. [id |-> <<m_currentWirelessDevice, c>>, word |-> word, at |-> waitingForPassword[c]] \in Answer
    BY <2>1 DEF TypeOK, Answer, Ids
  <2>3. QED
    BY <1>11, <2>2 DEF TypeOK, PanelSends, agentVars, history
<1>12. ASSUME NEW d \in Devices, PanelSelects(d) PROVE TypeOK'
  BY <1>12 DEF TypeOK, PanelSelects, agentVars, history
<1>13. CASE KeyRingClear
  <2>1. suspended \subseteq Calls
    BY BoundAssumption DEF TypeOK
  <2>2. QED
    BY <1>13, <2>1 DEF TypeOK, KeyRingClear, panelVars
<1>14. CASE KeyRingInit
  BY <1>14 DEF TypeOK, KeyRingInit, panelVars, history
<1>15. CASE UNCHANGED vars
  BY <1>15 DEF TypeOK, vars, agentVars, panelVars, history
<1>16. QED
  BY <1>1, <1>2, <1>3, <1>4, <1>5, <1>6, <1>7, <1>8, <1>9, <1>10, <1>11, <1>12, <1>13, <1>14, <1>15
     DEF Next, GetSecrets, User

-----------------------------------------------------------------------------
(* What a step does to the calls, point by point.                          *)

\* The calls are as they were, but that a timer may be started again.
Quiet ==
  /\ \A k \in Calls :
       /\ request'[k].conn = request[k].conn /\ request'[k].prompt = request[k].prompt
       /\ request'[k].at = request[k].at /\ request'[k].canceled = request[k].canceled
       /\ request'[k].exiting = request[k].exiting
       /\ request[k].exiting => request'[k].timer = request[k].timer
       /\ k > arrived => request'[k] = request[k]
  /\ UNCHANGED <<arrived, suspended, m_waitingRequests, reply, said, timedOut, deleted>>

\* A call is dispatched; the others are as they were.
Arrives(a) ==
  /\ a \in Calls /\ a = arrived + 1 /\ arrived' = a /\ request'[a].conn \in Conns
  /\ \A k \in Calls \ {a} : request'[k] = request[k] /\ reply'[k] = reply[k]
  /\ UNCHANGED <<said, timedOut, deleted>>

\* It is answered at once.
AtOnce(a) ==
  /\ Arrives(a)
  /\ UNCHANGED <<suspended, m_waitingRequests>>
  /\ reply'[a].outcome \notin {"none", "password"} /\ reply'[a].at = NoCall
  /\ request'[a].prompt = "none" /\ ~request'[a].exiting /\ ~request'[a].canceled

\* It is suspended behind a prompt of its kind; no other call of its profile is.
Suspends(a, c) ==
  /\ Arrives(a)
  /\ c \in Conns /\ m_waitingRequests[IdOf(c)] = NoCall
  /\ suspended' = suspended \cup {a}
  /\ m_waitingRequests' = [m_waitingRequests EXCEPT ![IdOf(c)] = a]
  /\ reply'[a] = reply[a]
  /\ request'[a].conn = c /\ request'[a].prompt # "none" /\ request'[a].at = NoCall
  /\ request'[a].prompt = "dialog" => KindOf[c] \notin PanelKinds
  /\ ~request'[a].exiting /\ ~request'[a].canceled

(* The prompt of call d ends, and call n is told the word; they are the    *)
(* same unless the agent of d was deleted.  A dialog that closes takes its *)
(* timer along, and had not been closed before.                            *)
Ends(d, n, word, at) ==
  /\ d \in suspended /\ d \in Calls
  /\ \A k \in Calls :
       /\ request'[k].conn = request[k].conn /\ request'[k].prompt = request[k].prompt
       /\ request'[k].timer \in {request[k].timer, "off"}
       /\ k \notin {d, n} => request'[k] = request[k]
       /\ k # d => (request'[k].exiting <=> request[k].exiting \/ (k = n /\ request[k].prompt = "panel"))
       /\ k # n => /\ request'[k].at = request[k].at /\ request'[k].canceled = request[k].canceled
                  /\ said'[k] = said[k] /\ (k \in timedOut' <=> k \in timedOut)
  /\ request'[d].exiting
  /\ n \in Calls =>
       /\ n \in suspended /\ request[n].conn = request[d].conn
       /\ word # "timeout" => Own(n, at)
       /\ request'[n].canceled <=> word # "password"
       /\ request'[n].at = IF word = "timeout" THEN NoCall ELSE at
       /\ said'[n] = IF word = "timeout" THEN said[n] ELSE word
       /\ n \in timedOut' <=> n \in timedOut \/ word = "timeout"
  /\ request[d].prompt # "dialog" => n = d
  /\ request[d].prompt = "dialog" => ~request[d].exiting /\ request'[d].timer = "off" /\ at = d
  /\ d \notin deleted => n = d
  /\ UNCHANGED <<arrived, suspended, m_waitingRequests, reply, deleted>>

\* The handler of call n returns; what its agent's deletion leaves open is left open.
Returns(n) ==
  /\ n \in suspended /\ request[n].exiting
  /\ suspended' = suspended \ {n}
  /\ \A k \in Calls \ {n} : request'[k] = request[k] /\ reply'[k] = reply[k]
  /\ request'[n].conn = request[n].conn /\ request'[n].prompt = request[n].prompt
  /\ request'[n].at = request[n].at /\ request'[n].timer = "off"
  /\ request'[n].canceled = request[n].canceled /\ request'[n].exiting
  /\ reply'[n].at \in {NoCall, request[n].at} \/ reply'[n] = reply[n]
  /\ UNCHANGED <<arrived, said, timedOut, deleted>>

\* It answers what its own request was told.
Resumes(n) ==
  /\ Returns(n) /\ n \notin deleted
  /\ m_waitingRequests' = [m_waitingRequests EXCEPT ![IdOf(request[n].conn)] = NoCall]
  /\ \/ /\ reply'[n].outcome = IF request[n].canceled THEN "UserCanceled" ELSE "password"
        /\ reply'[n].at = request[n].at
     \/ /\ ~request[n].canceled /\ reply'[n].outcome = "InternalError" /\ reply'[n].at = NoCall
        /\ request[n].conn \in AgentOwned

\* It belongs to an agent that was deleted.
ResumesDeleted(n) == Returns(n) /\ n \in deleted /\ UNCHANGED m_waitingRequests

\* The agent is deleted.
Locks ==
  /\ deleted' = deleted \cup suspended
  /\ m_waitingRequests' = [id \in Ids |-> NoCall]
  /\ UNCHANGED <<arrived, suspended, request, reply, said, timedOut>>

\* The properties with what makes them inductive.
IInv == /\ TypeOK /\ WaitingIsSuspended /\ PromptsInv
        /\ OwnPassword /\ PromptCanceledByUser /\ DialogDelivered

\* A step of the agent that leaves every request alone.
LEMMA QuietSame ==
  ASSUME UNCHANGED <<arrived, suspended, request, m_waitingRequests, reply, said, timedOut, deleted>>
  PROVE  Quiet
  BY DEF Quiet

\* GetSecrets without a prompt never answers with a typed password.
LEMMA AtOnceEffect ==
  ASSUME IInv, NEW c \in Conns, NEW in \in Inputs, GetSecretsAtOnce(c, in)
  PROVE  AtOnce(arrived + 1)
<1> DEFINE a == arrived + 1
<1>1. a \in Calls /\ a > arrived
  BY BoundAssumption DEF IInv, TypeOK, GetSecretsAtOnce, Calls
<1>2. request[a] = NoRequest /\ request' = [request EXCEPT ![a].conn = c]
  BY <1>1 DEF IInv, PromptsInv, Arrivals, GetSecretsAtOnce
<1>3. request \in [Calls -> Request] /\ reply \in [Calls -> Reply]
  BY DEF IInv, TypeOK
<1>4. /\ \A k \in Calls \ {a} : request'[k] = request[k]
      /\ request'[a].prompt = "none" /\ ~request'[a].exiting /\ ~request'[a].canceled
      /\ request'[a].conn = c
  BY <1>1, <1>2, <1>3 DEF NoRequest
<1> DEFINE o == Outcome(c, in)
<1>5. o \in {"stored", "empty", "UserCanceled", "InternalError", "InvalidConnection"}
  BY DEF GetSecretsAtOnce, Outcome
<1>6. Finish(a, c, Replied(o)) \/ reply' = [reply EXCEPT ![a] = Replied(o)]
  BY DEF GetSecretsAtOnce
<1>7. reply' = [reply EXCEPT ![a] = Replied(o)] \/ reply' = [reply EXCEPT ![a] = Replied("InternalError")]
  BY <1>6 DEF Finish
<1>8. /\ \A k \in Calls \ {a} : reply'[k] = reply[k]
      /\ reply'[a].outcome \notin {"none", "password"} /\ reply'[a].at = NoCall
  <2> HIDE DEF o
  <2>1. reply'[a] = Replied(o) \/ reply'[a] = Replied("InternalError")
    BY <1>1, <1>3, <1>7
  <2>2. QED
    BY <1>1, <1>3, <1>5, <1>7, <2>1 DEF Replied
<1>9. QED
  BY <1>1, <1>4, <1>8 DEF AtOnce, Arrives, GetSecretsAtOnce, history

\* A prompt is opened only where no call of the profile waits.
LEMMA SuspendEffect ==
  ASSUME IInv, NEW c \in Conns, NEW in \in Inputs, NEW p \in {"panel", "dialog"},
         arrived < MaxCalls, Outcome(c, in) = "prompt", Suspend(c, p),
         p = "dialog" => KindOf[c] \notin PanelKinds
  PROVE  Suspends(arrived + 1, c) /\ request'[arrived + 1].prompt = p
<1> DEFINE a == arrived + 1
<1>1. a \in Calls /\ a > arrived
  BY BoundAssumption DEF IInv, TypeOK, Calls
<1>2. m_waitingRequests[IdOf(c)] = NoCall
  BY DEF Outcome, Duplicate
<1>3. request \in [Calls -> Request]
  BY DEF IInv, TypeOK
<1> DEFINE r == [NoRequest EXCEPT !.conn = c, !.prompt = p, !.timer = "runs"]
<1>4. r.conn = c /\ r.prompt = p /\ ~r.exiting /\ ~r.canceled /\ r.at = NoCall
  BY DEF NoRequest
<1>5. request' = [request EXCEPT ![a] = r]
  BY DEF Suspend
<1> HIDE DEF r
<1>6. request'[a] = r /\ \A k \in Calls \ {a} : request'[k] = request[k]
  BY <1>1, <1>3, <1>5
<1>7. QED
  BY <1>1, <1>2, <1>4, <1>6 DEF Suspends, Arrives, Suspend, history

\* A call that is over for the agent there is missed what was not its answer.
LEMMA LeftBehind ==
  ASSUME IInv, NEW c, NEW k, Unanswered(k, c), k \notin Waiting
  PROVE  Missed(k) \/ k \in deleted
<1>1. CASE k \in deleted
  BY <1>1
<1>2. CASE k \notin deleted
  <2>1. k \in 1 .. arrived /\ k \notin suspended /\ request[k].at # k
    BY <1>2 DEF Waiting, Unanswered
  <2>2. k # NoCall
    BY <2>1, NullAssumption, BoundAssumption DEF IInv, TypeOK
  <2>3. reply[k].outcome # "none" /\ reply[k].at \in {NoCall, request[k].at}
    BY <1>2, <2>1 DEF IInv, PromptsInv, Over
  <2>4. QED
    BY <2>1, <2>2, <2>3 DEF Missed
<1>3. QED
  BY <1>1, <1>2

\* The panel only ends waits of its own prompts, and a late answer goes to a later call of the same profile.
LEMMA PanelAnswerEnds ==
  ASSUME IInv, PanelAnswer, NEW n \in Calls, n = m_waitingRequests[Head(answers).id]
  PROVE  Ends(n, n, Head(answers).word, Head(answers).at)
<1> DEFINE m == Head(answers)
<1>1. /\ m.id \in Ids /\ m.word \in {"password", "cancel"} /\ m.at \in Calls
      /\ n # NoCall /\ request \in [Calls -> Request] /\ answers \in Seq(Answer) /\ answers # <<>>
  BY PanelAnswerTypes, NoCallIsNone DEF IInv, TypeOK, PanelAnswer
<1>2. Unanswered(m.at, m.id[2])
  <2>1. 1 \in DOMAIN answers /\ m = answers[1]
    BY <1>1
  <2>2. QED
    BY <2>1 DEF IInv, PromptsInv, AnsweredOnce
<1>3. n \in Waiting /\ IdOf(request[n].conn) = m.id
  BY <1>1 DEF IInv, WaitingIsSuspended
<1>4. request[n].conn = m.id[2] /\ request[m.at].conn = request[n].conn /\ request[m.at].prompt = "panel"
  BY <1>2, <1>3 DEF IdOf, Unanswered
<1>5. request[n].prompt = "panel"
  <2>1. KindOf[request[n].conn] \in PanelKinds
    BY <1>2, <1>4 DEF Unanswered
  <2>2. request[n].prompt # "dialog" /\ request[n].prompt # "none"
    BY <1>3, <2>1 DEF IInv, PromptsInv, DialogsFinal, OpenPrompts, Waiting
  <2>3. QED
    BY <1>1, <2>2 DEF Request, Prompts
<1>6. Own(n, m.at)
  <2>1. CASE m.at = n
    BY <1>1, <1>4, <2>1 DEF Own
  <2>2. CASE m.at # n
    <3>1. m.at \notin Waiting
      BY <1>3, <1>4, <2>2 DEF IInv, WaitingIsSuspended
    <3>2. m.at <= n
      BY <1>1, <1>3, <1>4 DEF IInv, PromptsInv, LastPrompt
    <3>3. m.at < n
      BY <1>1, <2>2, <3>2, BoundAssumption DEF Calls
    <3>4. QED
      BY <1>1, <1>2, <1>4, <3>1, <3>3, LeftBehind DEF Own
  <2>3. QED
    BY <2>1, <2>2
<1>7. Told(n, m.word, m.at, request)
  BY <1>1, TellsEffect DEF IInv, PanelAnswer, Words
<1> HIDE DEF m
<1>8. Ends(n, n, m.word, m.at)
  BY <1>1, <1>3, <1>5, <1>6, <1>7 DEF Ends, Told, Waiting, PanelAnswer
<1>9. QED
  BY <1>8 DEF m

\* The request that a dialog finds by its id: its own, or when its agent was deleted that of a later call.
LEMMA DialogFinds ==
  ASSUME IInv, NEW d \in suspended, request[d].prompt = "dialog", NEW n, n = m_waitingRequests[IdOf(request[d].conn)]
  PROVE  /\ d \in Calls /\ n \in Calls \cup {NoCall}
         /\ d \notin deleted => n = d
         /\ n \in Calls => n \in Waiting /\ request[n].conn = request[d].conn /\ Own(n, d)
<1>1. d \in Calls /\ request[d].conn \in Conns
  BY BoundAssumption DEF IInv, TypeOK, PromptsInv, OpenPrompts, Calls
<1>2. IdOf(request[d].conn) \in Ids /\ n \in Calls \cup {NoCall}
  BY <1>1, IdTypes DEF IInv, TypeOK
<1>3. d \notin deleted => n = d
  BY DEF IInv, WaitingIsSuspended, Waiting
<1>4. ASSUME n \in Calls PROVE n \in Waiting /\ request[n].conn = request[d].conn
  BY <1>2, <1>4, NoCallIsNone DEF IInv, WaitingIsSuspended, IdOf
<1>5. ASSUME n \in Calls PROVE Own(n, d)
  <2>1. d <= n
    BY <1>1, <1>4, <1>5 DEF IInv, PromptsInv, LastPrompt
  <2>2. d # n => d < n /\ d \in deleted
    BY <1>1, <1>3, <1>5, <2>1, BoundAssumption DEF Calls
  <2>3. QED
    BY <1>1, <1>4, <1>5, <2>2 DEF Own
<1>6. QED
  BY <1>1, <1>2, <1>3, <1>4, <1>5

\* A dialog that closes tells the request it finds.
LEMMA DialogEnds ==
  ASSUME IInv, NEW d \in suspended, request[d].prompt = "dialog", ~request[d].exiting, NEW word \in Words,
         Tells(m_waitingRequests[IdOf(request[d].conn)], word, d, Closed(d)),
         UNCHANGED <<arrived, suspended, m_waitingRequests, reply, deleted>>
  PROVE  Ends(d, m_waitingRequests[IdOf(request[d].conn)], word, d)
<1> DEFINE n == m_waitingRequests[IdOf(request[d].conn)]
<1>1. /\ d \in Calls /\ n \in Calls \cup {NoCall}
      /\ d \notin deleted => n = d
      /\ n \in Calls => n \in suspended /\ request[n].conn = request[d].conn /\ Own(n, d)
  BY DialogFinds DEF Waiting
<1>2. /\ Closed(d) \in [Calls -> Request]
      /\ \A k \in Calls \ {d} : Closed(d)[k] = request[k]
      /\ Closed(d)[d].conn = request[d].conn /\ Closed(d)[d].prompt = request[d].prompt
      /\ Closed(d)[d].at = request[d].at /\ Closed(d)[d].canceled = request[d].canceled
      /\ Closed(d)[d].exiting /\ Closed(d)[d].timer = "off"
  BY <1>1, ClosedEffect DEF IInv
<1>3. Told(n, word, d, Closed(d))
  BY <1>1, <1>2, TellsEffect DEF IInv
<1> HIDE DEF n
<1>4. \A k \in Calls :
       /\ request'[k].conn = request[k].conn /\ request'[k].prompt = request[k].prompt
       /\ request'[k].timer \in {request[k].timer, "off"}
       /\ k \notin {d, n} => request'[k] = request[k]
       /\ k # d => (request'[k].exiting <=> request[k].exiting \/ (k = n /\ request[k].prompt = "panel"))
       /\ k # n => /\ request'[k].at = request[k].at /\ request'[k].canceled = request[k].canceled
                  /\ said'[k] = said[k] /\ (k \in timedOut' <=> k \in timedOut)
  BY <1>1, <1>2, <1>3 DEF Told
<1>5. request'[d].exiting /\ request'[d].timer = "off"
  BY <1>1, <1>2, <1>3 DEF Told
<1>6. Ends(d, n, word, d)
  BY <1>1, <1>3, <1>4, <1>5 DEF Ends, Told
<1>7. QED
  BY <1>6 DEF n

\* The timer of wait() ends its own request; that of a dialog closes it, and has stopped when it is closed.
LEMMA TimerEnds ==
  ASSUME IInv, NEW d \in Calls, TimerFires(d)
  PROVE  \E n \in Calls \cup {NoCall} : Ends(d, n, "timeout", d)
<1>1. request \in [Calls -> Request] /\ d \in suspended /\ request[d].prompt \in {"panel", "dialog"}
  BY DEF IInv, TypeOK, TimerFires, PromptsInv, OpenPrompts, Request, Prompts
<1>2. UNCHANGED <<arrived, suspended, m_waitingRequests, reply, deleted>>
  BY DEF TimerFires
<1>3. CASE request[d].prompt = "panel"
  <2> DEFINE rs == [request EXCEPT ![d].timer = "off"]
  <2>1. /\ rs \in [Calls -> Request]
        /\ \A k \in Calls \ {d} : rs[k] = request[k]
        /\ rs[d].conn = request[d].conn /\ rs[d].prompt = request[d].prompt
        /\ rs[d].at = request[d].at /\ rs[d].canceled = request[d].canceled
        /\ rs[d].exiting = request[d].exiting /\ rs[d].timer = "off"
    BY TimerEffect DEF IInv, Timers
  <2>2. Tells(d, "timeout", d, rs)
    BY <1>3 DEF TimerFires
  <2> HIDE DEF rs
  <2>3. Told(d, "timeout", d, rs)
    BY <2>1, <2>2, TellsEffect DEF IInv, Words
  <2>4. Ends(d, d, "timeout", d)
    BY <1>1, <1>2, <1>3, <2>1, <2>3 DEF Ends, Told
  <2>5. QED
    BY <2>4
<1>4. CASE request[d].prompt = "dialog"
  <2>1. ~request[d].exiting
    BY <1>4 DEF IInv, PromptsInv, DialogsFinal, TimerFires
  <2>2. Tells(m_waitingRequests[IdOf(request[d].conn)], "timeout", d, Closed(d))
    BY <1>4 DEF TimerFires
  <2>3. Ends(d, m_waitingRequests[IdOf(request[d].conn)], "timeout", d)
    BY <1>1, <1>2, <1>4, <2>1, <2>2, DialogEnds DEF Words
  <2>4. QED
    BY <1>1, <1>4, <2>3, DialogFinds
<1>5. QED
  BY <1>1, <1>3, <1>4

\* A dialog that is answered while there is no agent crashes, or only closes.
LEMMA DialogAnswerEnds ==
  ASSUME IInv, NEW d \in Calls, NEW word \in {"password", "cancel"}, DialogAnswer(d, word)
  PROVE  Quiet \/ \E n \in Calls \cup {NoCall} : Ends(d, n, word, d)
<1>1. d \in suspended /\ request[d].prompt = "dialog" /\ ~request[d].exiting
      /\ UNCHANGED <<arrived, suspended, m_waitingRequests, reply, deleted>>
  BY DEF DialogAnswer, Front, Open
<1>2. CASE agent = "none" /\ word = "password"
  <2>1. UNCHANGED <<request, said, timedOut>>
    BY <1>2 DEF DialogAnswer
  <2>2. QED
    BY <1>1, <2>1, QuietSame
<1>3. CASE ~(agent = "none" /\ word = "password")
  <2>1. Tells(m_waitingRequests[IdOf(request[d].conn)], word, d, Closed(d))
    BY <1>3 DEF DialogAnswer
  <2>2. Ends(d, m_waitingRequests[IdOf(request[d].conn)], word, d)
    BY <1>1, <2>1, DialogEnds DEF Words
  <2>3. QED
    BY <1>1, <2>2, DialogFinds
<1>4. QED
  BY <1>2, <1>3

\* Editing moves the timer of an open dialog and nothing else.
LEMMA EditedQuiet ==
  ASSUME IInv, NEW d \in Calls, DialogEdited(d)
  PROVE  Quiet
<1> DEFINE t == IF request[d].timer = "runs" THEN "restarts" ELSE "runs"
<1>1. request' = [request EXCEPT ![d].timer = t] /\ t \in Timers /\ ~request[d].exiting
  BY DEF DialogEdited, Front, Open, IInv, TypeOK, Timers
<1>2. d <= arrived
  BY BoundAssumption DEF DialogEdited, Front, Open, IInv, TypeOK
<1> HIDE DEF t
<1>3. LET rs == [request EXCEPT ![d].timer = t] IN
      /\ \A k \in Calls \ {d} : rs[k] = request[k]
      /\ rs[d].conn = request[d].conn /\ rs[d].prompt = request[d].prompt
      /\ rs[d].at = request[d].at /\ rs[d].canceled = request[d].canceled
      /\ rs[d].exiting = request[d].exiting
  BY <1>1, TimerEffect DEF IInv
<1>4. QED
  BY <1>1, <1>2, <1>3, BoundAssumption DEF Quiet, DialogEdited, history, IInv, TypeOK, Calls

\* How the handler of a call returns, whatever it answers.
LEMMA ReturnEffect ==
  ASSUME IInv, NEW n \in Calls, Innermost(n), request[n].exiting,
         suspended' = suspended \ {n}, request' = [request EXCEPT ![n].timer = "off"],
         Finish(n, request[n].conn, Verdict(request[n])) \/ reply' = reply,
         UNCHANGED <<arrived, said, timedOut, deleted>>
  PROVE  /\ Returns(n)
         /\ reply' = reply \/
            \/ /\ reply'[n].outcome = IF request[n].canceled THEN "UserCanceled" ELSE "password"
               /\ reply'[n].at = request[n].at
            \/ /\ ~request[n].canceled /\ reply'[n].outcome = "InternalError" /\ reply'[n].at = NoCall
               /\ request[n].conn \in AgentOwned
<1>1. request \in [Calls -> Request] /\ reply \in [Calls -> Reply] /\ n \in suspended
  BY DEF IInv, TypeOK, Innermost
<1>2. /\ \A k \in Calls \ {n} : request'[k] = request[k]
      /\ request'[n].conn = request[n].conn /\ request'[n].prompt = request[n].prompt
      /\ request'[n].at = request[n].at /\ request'[n].canceled = request[n].canceled
      /\ request'[n].exiting = request[n].exiting /\ request'[n].timer = "off"
  BY TimerEffect DEF IInv, Timers
<1> DEFINE v == Verdict(request[n])
           e == Replied("InternalError")
<1>3. v.at = request[n].at /\ v.outcome = IF request[n].canceled THEN "UserCanceled" ELSE "password"
  BY <1>1, VerdictTypes
<1>4. e.at = NoCall /\ e.outcome = "InternalError"
  BY DEF Replied
<1>5. \/ reply' = reply
      \/ reply' = [reply EXCEPT ![n] = v]
      \/ /\ v.outcome \in {"password", "stored"} /\ request[n].conn \in AgentOwned
         /\ reply' = [reply EXCEPT ![n] = e]
  BY DEF Finish
<1> HIDE DEF v, e
<1>6. /\ \A k \in Calls \ {n} : reply'[k] = reply[k]
      /\ \/ reply' = reply
         \/ reply'[n] = v
         \/ v.outcome \in {"password", "stored"} /\ request[n].conn \in AgentOwned /\ reply'[n] = e
  BY <1>1, <1>5
<1>7. \/ reply' = reply
      \/ /\ reply'[n].outcome = IF request[n].canceled THEN "UserCanceled" ELSE "password"
         /\ reply'[n].at = request[n].at
      \/ /\ ~request[n].canceled /\ reply'[n].outcome = "InternalError" /\ reply'[n].at = NoCall
         /\ request[n].conn \in AgentOwned
  BY <1>3, <1>4, <1>6
<1>8. Returns(n)
  BY <1>1, <1>2, <1>6, <1>7 DEF Returns
<1>9. QED
  BY <1>7, <1>8

\* A handler answers what its own request was told.
LEMMA ResumeEffect ==
  ASSUME IInv, NEW n \in Calls, Resume(n)
  PROVE  Resumes(n)
<1>1. Returns(n)
  BY ReturnEffect DEF Resume, history
<1>2. reply[n].outcome = "none" /\ reply \in [Calls -> Reply]
  BY DEF Resume, Innermost, IInv, PromptsInv, OpenPrompts, TypeOK
<1> DEFINE v == Verdict(request[n])
           e == Replied("InternalError")
<1>3. \/ reply' = [reply EXCEPT ![n] = v]
      \/ /\ v.outcome \in {"password", "stored"} /\ request[n].conn \in AgentOwned
         /\ reply' = [reply EXCEPT ![n] = e]
  BY DEF Resume, Finish
<1>4. v.at = request[n].at /\ v.outcome = IF request[n].canceled THEN "UserCanceled" ELSE "password"
  BY VerdictTypes DEF IInv, TypeOK
<1>5. e.at = NoCall /\ e.outcome = "InternalError"
  BY DEF Replied
<1> HIDE DEF v, e
<1>6. \/ reply'[n] = v
      \/ v.outcome \in {"password", "stored"} /\ request[n].conn \in AgentOwned /\ reply'[n] = e
  BY <1>2, <1>3
<1>7. \/ /\ reply'[n].outcome = IF request[n].canceled THEN "UserCanceled" ELSE "password"
         /\ reply'[n].at = request[n].at
      \/ /\ ~request[n].canceled /\ reply'[n].outcome = "InternalError" /\ reply'[n].at = NoCall
         /\ request[n].conn \in AgentOwned
  BY <1>4, <1>5, <1>6
<1>8. QED
  BY <1>1, <1>7 DEF Resumes, Resume

\* The handler of a deleted agent leaves m_waitingRequests alone.
LEMMA ResumeDeletedEffect ==
  ASSUME IInv, NEW n \in Calls, ResumeDeleted(n)
  PROVE  ResumesDeleted(n)
<1>1. Finish(n, request[n].conn, Verdict(request[n])) \/ reply' = reply
  BY DEF ResumeDeleted
<1>2. Returns(n)
  BY <1>1, ReturnEffect DEF ResumeDeleted, history
<1>3. QED
  BY <1>2 DEF ResumesDeleted, ResumeDeleted

\* Every step does to the calls one of seven things.
LEMMA StepEffect ==
  ASSUME IInv, [Next]_vars
  PROVE  \/ Quiet
         \/ AtOnce(arrived + 1)
         \/ \E c \in Conns : Suspends(arrived + 1, c)
         \/ \E d \in Calls, n \in Calls \cup {NoCall}, word \in Words, at \in Calls :
              /\ Ends(d, n, word, at)
              /\ word = "timeout" \/ request[d].prompt = "dialog" \/ (PanelAnswer /\ at = Head(answers).at)
         \/ \E n \in Calls : Resumes(n)
         \/ \E n \in Calls : ResumesDeleted(n)
         \/ Locks
<1>1. ASSUME NEW c \in Conns, NEW in \in Inputs, GetSecretsAtOnce(c, in) PROVE AtOnce(arrived + 1)
  BY <1>1, AtOnceEffect
<1>2. ASSUME NEW c \in Conns, NEW in \in Inputs, GetSecretsPanel(c, in) PROVE Suspends(arrived + 1, c)
  BY <1>2, SuspendEffect DEF GetSecretsPanel
<1>3. ASSUME NEW c \in Conns, NEW in \in Inputs, GetSecretsDialog(c, in) PROVE Suspends(arrived + 1, c)
  BY <1>3, SuspendEffect DEF GetSecretsDialog, PanelKinds
<1>4. ASSUME NEW c \in Conns, SaveSecrets(c) \/ DeleteSecrets(c) PROVE Quiet
  BY <1>4, QuietSame DEF SaveSecrets, DeleteSecrets, panelVars, history
<1>5. CASE PanelAnswer
  <2> DEFINE n == m_waitingRequests[Head(answers).id]
  <2>1. n \in Calls \cup {NoCall} /\ Head(answers).word \in Words /\ Head(answers).at \in Calls
    BY <1>5, PanelAnswerTypes DEF IInv, Words
  <2>2. CASE n = NoCall
    BY <1>5, <2>2, QuietSame DEF PanelAnswer, Tells
  <2>3. CASE n \in Calls
    BY <1>5, <2>1, <2>3, PanelAnswerEnds
  <2>4. QED
    BY <2>1, <2>2, <2>3
<1>6. ASSUME NEW c \in Conns, NEW word \in {"password", "cancel"}, PanelSends(c, word) PROVE Quiet
  BY <1>6, QuietSame DEF PanelSends, agentVars, history
<1>7. ASSUME NEW d \in Devices, PanelSelects(d) PROVE Quiet
  BY <1>7, QuietSame DEF PanelSelects, agentVars, history
<1>8. CASE UNCHANGED vars
  BY <1>8, QuietSame DEF vars, agentVars, history
<1>9. ASSUME NEW d \in Calls, NEW word \in {"password", "cancel"}, DialogAnswer(d, word)
      PROVE  Quiet \/ \E n \in Calls \cup {NoCall} : Ends(d, n, word, d) /\ request[d].prompt = "dialog"
  BY <1>9, DialogAnswerEnds DEF DialogAnswer, Front, Open
<1>10. ASSUME NEW d \in Calls, TimerFires(d)
       PROVE  \E n \in Calls \cup {NoCall} : Ends(d, n, "timeout", d)
  BY <1>10, TimerEnds
<1>11. CASE KeyRingClear
  BY <1>11 DEF Locks, KeyRingClear
<1>12. CASE KeyRingInit
  BY <1>12, QuietSame DEF KeyRingInit, history
<1>13. {"password", "cancel"} \subseteq Words /\ "timeout" \in Words
  BY DEF Words
<1>14. QED
  BY <1>1, <1>2, <1>3, <1>4, <1>5, <1>6, <1>7, <1>8, <1>9, <1>10, <1>11, <1>12, <1>13,
     ResumeEffect, ResumeDeletedEffect, EditedQuiet DEF Next, GetSecrets, User

-----------------------------------------------------------------------------
(* Each part of the invariant is kept by each of the seven effects.        *)

\* The calls that are in use: each is a call, and the null pointer is none.
LEMMA CallFacts ==
  ASSUME IInv
  PROVE  /\ arrived \in Nat /\ suspended \subseteq Calls /\ \A k \in suspended : k <= arrived
         /\ m_waitingRequests \in [Ids -> Calls \cup {NoCall}] /\ NoCall \notin Calls
         /\ request \in [Calls -> Request] /\ reply \in [Calls -> Reply]
         /\ \A n \in suspended : request[n].conn \in Conns /\ IdOf(request[n].conn) \in Ids
         /\ \A n \in Calls : request[n].conn \in Conns => n <= arrived
<1>1. /\ arrived \in Nat /\ suspended \subseteq Calls /\ \A k \in suspended : k <= arrived
      /\ m_waitingRequests \in [Ids -> Calls \cup {NoCall}] /\ NoCall \notin Calls
      /\ request \in [Calls -> Request] /\ reply \in [Calls -> Reply]
  BY BoundAssumption, NoCallIsNone DEF IInv, TypeOK, Calls
<1>2. \A n \in suspended : request[n].conn \in Conns /\ IdOf(request[n].conn) \in Ids
  BY IdTypes DEF IInv, PromptsInv, OpenPrompts
<1>3. \A n \in Calls : request[n].conn \in Conns => n <= arrived
  BY <1>1, NullAssumption, BoundAssumption DEF IInv, PromptsInv, Arrivals, NoRequest, Calls
<1>4. QED
  BY <1>1, <1>2, <1>3

\* The map follows the suspended calls: a call enters a free key and leaves its own.
LEMMA WaitingStep ==
  ASSUME IInv, [Next]_vars
  PROVE  WaitingIsSuspended'
<1>1. /\ arrived \in Nat /\ suspended \subseteq Calls /\ \A k \in suspended : k <= arrived
      /\ m_waitingRequests \in [Ids -> Calls \cup {NoCall}] /\ NoCall \notin Calls
      /\ \A n \in suspended : IdOf(request[n].conn) \in Ids
  BY CallFacts
<1>2. CASE Quiet
  <2>1. Waiting' = Waiting /\ m_waitingRequests' = m_waitingRequests
        /\ \A k \in Calls : request'[k].conn = request[k].conn
    BY <1>2 DEF Quiet, Waiting
  <2>2. QED
    BY <1>1, <2>1 DEF IInv, WaitingIsSuspended, Waiting
<1>3. CASE AtOnce(arrived + 1)
  <2>1. arrived + 1 \notin suspended
    BY <1>1
  <2>2. \A n \in suspended : request'[n] = request[n]
    BY <1>1, <1>3, <2>1 DEF AtOnce, Arrives
  <2>3. Waiting' = Waiting /\ m_waitingRequests' = m_waitingRequests
    BY <1>3 DEF AtOnce, Arrives, Waiting
  <2>4. QED
    BY <2>2, <2>3 DEF IInv, WaitingIsSuspended, Waiting
<1>4. ASSUME NEW c \in Conns, Suspends(arrived + 1, c) PROVE WaitingIsSuspended'
  <2> DEFINE a == arrived + 1
  <2>1. a \in Calls /\ a \notin suspended /\ request'[a].conn = c /\ IdOf(c) \in Ids
    BY <1>1, <1>4, IdTypes DEF Suspends, Arrives
  <2>2. \A n \in suspended : request'[n] = request[n]
    BY <1>1, <1>4, <2>1 DEF Suspends, Arrives
  <2>3. \A n \in Waiting : m_waitingRequests[IdOf(request[n].conn)] = n /\ IdOf(request[n].conn) # IdOf(c)
    BY <1>1, <1>4 DEF IInv, WaitingIsSuspended, Suspends, Waiting
  <2>4. m_waitingRequests' = [m_waitingRequests EXCEPT ![IdOf(c)] = a]
        /\ suspended' = suspended \cup {a} /\ deleted' = deleted
    BY <1>4 DEF Suspends, Arrives
  <2>5. \A n \in Waiting' : n # a => n \in Waiting
    BY <2>4 DEF Waiting
  <2>6. \A n \in Waiting' : m_waitingRequests'[IdOf(request'[n].conn)] = n
    BY <1>1, <2>1, <2>2, <2>3, <2>4, <2>5 DEF Waiting
  <2>7. \A id \in Ids : m_waitingRequests'[id] # NoCall =>
          m_waitingRequests'[id] \in Waiting' /\ IdOf(request'[m_waitingRequests'[id]].conn) = id
    <3> SUFFICES ASSUME NEW id \in Ids, m_waitingRequests'[id] # NoCall
                 PROVE  /\ m_waitingRequests'[id] \in Waiting'
                        /\ IdOf(request'[m_waitingRequests'[id]].conn) = id
      OBVIOUS
    <3>1. CASE id = IdOf(c)
      <4>1. a \notin deleted
        BY <1>1, <2>1 DEF IInv, PromptsInv, Arrivals
      <4>2. QED
        BY <1>1, <2>1, <2>4, <3>1, <4>1 DEF Waiting
    <3>2. CASE id # IdOf(c)
      <4>1. m_waitingRequests'[id] = m_waitingRequests[id]
        BY <1>1, <2>4, <3>2
      <4>2. QED
        BY <2>2, <2>4, <4>1 DEF IInv, WaitingIsSuspended, Waiting
    <3>3. QED
      BY <3>1, <3>2
  <2>8. QED
    BY <2>6, <2>7 DEF WaitingIsSuspended
<1>5. ASSUME NEW d, NEW n, NEW word, NEW at, Ends(d, n, word, at) PROVE WaitingIsSuspended'
  <2>1. \A k \in Calls : request'[k].conn = request[k].conn
    BY <1>5 DEF Ends
  <2>2. Waiting' = Waiting /\ m_waitingRequests' = m_waitingRequests
    BY <1>5 DEF Ends, Waiting
  <2>3. QED
    BY <1>1, <2>1, <2>2 DEF IInv, WaitingIsSuspended, Waiting
<1>6. ASSUME NEW n \in Calls, Resumes(n) PROVE WaitingIsSuspended'
  <2>1. \A k \in Calls : request'[k].conn = request[k].conn
    BY <1>6 DEF Resumes, Returns
  <2>2. /\ m_waitingRequests' = [m_waitingRequests EXCEPT ![IdOf(request[n].conn)] = NoCall]
        /\ Waiting' = Waiting \ {n} /\ n \in Waiting
    BY <1>6 DEF Resumes, Returns, Waiting
  <2>3. \A k \in Waiting' : m_waitingRequests'[IdOf(request'[k].conn)] = k
    <3> SUFFICES ASSUME NEW k \in Waiting' PROVE m_waitingRequests'[IdOf(request'[k].conn)] = k
      OBVIOUS
    <3>1. k \in Waiting /\ k \in Calls /\ k # n /\ IdOf(request[k].conn) \in Ids
      BY <1>1, <2>2 DEF Waiting
    <3>2. IdOf(request'[k].conn) = IdOf(request[k].conn)
      BY <2>1, <3>1
    <3>3. m_waitingRequests[IdOf(request[k].conn)] = k /\ m_waitingRequests[IdOf(request[n].conn)] = n
      BY <2>2, <3>1 DEF IInv, WaitingIsSuspended
    <3>4. QED
      BY <1>1, <2>2, <3>1, <3>2, <3>3
  <2>4. \A id \in Ids : m_waitingRequests'[id] # NoCall =>
          /\ m_waitingRequests'[id] = m_waitingRequests[id]
          /\ id # IdOf(request[n].conn)
    BY <1>1, <2>2
  <2>5. \A id \in Ids : m_waitingRequests'[id] # NoCall =>
          m_waitingRequests'[id] \in Waiting' /\ IdOf(request'[m_waitingRequests'[id]].conn) = id
    BY <1>1, <2>1, <2>2, <2>4 DEF IInv, WaitingIsSuspended, Waiting
  <2>6. QED
    BY <2>3, <2>5 DEF WaitingIsSuspended
<1>7. ASSUME NEW n \in Calls, ResumesDeleted(n) PROVE WaitingIsSuspended'
  <2>1. \A k \in Calls : request'[k].conn = request[k].conn
    BY <1>7 DEF ResumesDeleted, Returns
  <2>2. Waiting' = Waiting /\ m_waitingRequests' = m_waitingRequests
    BY <1>7 DEF ResumesDeleted, Returns, Waiting
  <2>3. QED
    BY <1>1, <2>1, <2>2 DEF IInv, WaitingIsSuspended, Waiting
<1>8. CASE Locks
  <2>1. Waiting' = {} /\ \A id \in Ids : m_waitingRequests'[id] = NoCall
    BY <1>8 DEF Locks, Waiting
  <2>2. QED
    BY <2>1 DEF WaitingIsSuspended
<1>9. QED
  BY <1>2, <1>3, <1>4, <1>5, <1>6, <1>7, <1>8, StepEffect

\* Calls that were dispatched keep their profile and prompt, and an answer is given once.
LEMMA CallsStay ==
  ASSUME IInv, [Next]_vars
  PROVE  /\ deleted \subseteq deleted'
         /\ \A k \in Calls : k <= arrived =>
              /\ request'[k].conn = request[k].conn /\ request'[k].prompt = request[k].prompt
              /\ reply[k].outcome # "none" => reply'[k] = reply[k]
<1>1. arrived \in Nat /\ suspended \subseteq Calls /\ \A n \in suspended : reply[n].outcome = "none"
  BY CallFacts DEF IInv, PromptsInv, OpenPrompts
<1>2. CASE Quiet
  BY <1>2 DEF Quiet
<1>3. CASE AtOnce(arrived + 1)
  BY <1>1, <1>3, BoundAssumption DEF AtOnce, Arrives, Calls
<1>4. ASSUME NEW c \in Conns, Suspends(arrived + 1, c)
      PROVE  /\ deleted \subseteq deleted'
             /\ \A k \in Calls : k <= arrived =>
                  /\ request'[k].conn = request[k].conn /\ request'[k].prompt = request[k].prompt
                  /\ reply[k].outcome # "none" => reply'[k] = reply[k]
  BY <1>1, <1>4, BoundAssumption DEF Suspends, Arrives, Calls
<1>5. ASSUME NEW d, NEW n, NEW word, NEW at, Ends(d, n, word, at)
      PROVE  /\ deleted \subseteq deleted'
             /\ \A k \in Calls : k <= arrived =>
                  /\ request'[k].conn = request[k].conn /\ request'[k].prompt = request[k].prompt
                  /\ reply[k].outcome # "none" => reply'[k] = reply[k]
  BY <1>5 DEF Ends
<1>6. ASSUME NEW n \in Calls, Returns(n)
      PROVE  /\ deleted \subseteq deleted'
             /\ \A k \in Calls : k <= arrived =>
                  /\ request'[k].conn = request[k].conn /\ request'[k].prompt = request[k].prompt
                  /\ reply[k].outcome # "none" => reply'[k] = reply[k]
  BY <1>1, <1>6 DEF Returns
<1>7. CASE Locks
  BY <1>7 DEF Locks
<1>8. QED
  BY <1>2, <1>3, <1>4, <1>5, <1>6, <1>7, StepEffect DEF Resumes, ResumesDeleted

\* Own in the next state.
OwnAfter(n, k) ==
  /\ k \in Calls /\ request'[k].conn = request'[n].conn
  /\ k # n => k < n /\ ((reply'[k].outcome # "none" /\ reply'[k].at # k) \/ k \in deleted')

\* What answers a call as its own goes on to do so.
LEMMA OwnStays ==
  ASSUME IInv, [Next]_vars, NEW n \in Calls, n <= arrived, NEW k, Own(n, k)
  PROVE  OwnAfter(n, k)
<1>1. k \in Calls /\ request[k].conn = request[n].conn /\ k <= arrived
  BY CallFacts DEF Own, IInv, PromptsInv, Arrivals
<1>2. request'[k].conn = request'[n].conn
  BY <1>1, CallsStay
<1>3. Missed(k) => reply'[k].outcome # "none" /\ reply'[k].at # k
  BY <1>1, CallsStay DEF Missed
<1>4. QED
  BY <1>1, <1>2, <1>3, CallsStay DEF Own, OwnAfter

\* A call not dispatched yet holds nothing.
LEMMA ArrivalsStep ==
  ASSUME IInv, [Next]_vars
  PROVE  Arrivals'
<1>1. arrived \in Nat /\ suspended \subseteq Calls /\ \A k \in suspended : k <= arrived
  BY CallFacts
<1>2. Arrivals
  BY DEF IInv, PromptsInv
<1>3. CASE Quiet
  BY <1>2, <1>3 DEF Arrivals, Quiet
<1>4. CASE AtOnce(arrived + 1)
  BY <1>1, <1>2, <1>4, BoundAssumption DEF Arrivals, AtOnce, Arrives, Calls
<1>5. ASSUME NEW c \in Conns, Suspends(arrived + 1, c) PROVE Arrivals'
  BY <1>1, <1>2, <1>5, BoundAssumption DEF Arrivals, Suspends, Arrives, Calls
<1>6. ASSUME NEW d, NEW n, NEW word, NEW at, Ends(d, n, word, at) PROVE Arrivals'
  BY <1>1, <1>2, <1>6, BoundAssumption DEF Arrivals, Ends, Calls
<1>7. ASSUME NEW n \in Calls, Returns(n) PROVE Arrivals'
  BY <1>1, <1>2, <1>7, BoundAssumption DEF Arrivals, Returns, Calls
<1>8. CASE Locks
  BY <1>1, <1>2, <1>8, BoundAssumption DEF Arrivals, Locks, Calls
<1>9. QED
  BY <1>3, <1>4, <1>5, <1>6, <1>7, <1>8, StepEffect DEF Resumes, ResumesDeleted

\* A suspended call has a prompt and no reply.
LEMMA OpenPromptsStep ==
  ASSUME IInv, [Next]_vars
  PROVE  OpenPrompts'
<1>1. arrived \in Nat /\ suspended \subseteq Calls /\ \A k \in suspended : k <= arrived
  BY CallFacts
<1>2. OpenPrompts /\ Arrivals
  BY DEF IInv, PromptsInv
<1>3. CASE Quiet
  BY <1>1, <1>2, <1>3 DEF OpenPrompts, Quiet
<1>4. CASE AtOnce(arrived + 1)
  BY <1>1, <1>2, <1>4 DEF OpenPrompts, AtOnce, Arrives
<1>5. ASSUME NEW c \in Conns, Suspends(arrived + 1, c) PROVE OpenPrompts'
  <2>1. reply[arrived + 1].outcome = "none"
    BY <1>1, <1>2, <1>5 DEF Arrivals, Suspends, Arrives, Replied
  <2>2. QED
    BY <1>1, <1>2, <1>5, <2>1 DEF OpenPrompts, Suspends, Arrives
<1>6. ASSUME NEW d, NEW n, NEW word, NEW at, Ends(d, n, word, at) PROVE OpenPrompts'
  BY <1>1, <1>2, <1>6 DEF OpenPrompts, Ends
<1>7. ASSUME NEW n \in Calls, Returns(n) PROVE OpenPrompts'
  BY <1>1, <1>2, <1>7 DEF OpenPrompts, Returns
<1>8. CASE Locks
  BY <1>2, <1>8 DEF OpenPrompts, Locks
<1>9. QED
  BY <1>3, <1>4, <1>5, <1>6, <1>7, <1>8, StepEffect DEF Resumes, ResumesDeleted

\* A call that is not suspended any more has its reply.
LEMMA OverStep ==
  ASSUME IInv, [Next]_vars
  PROVE  Over'
<1>1. /\ arrived \in Nat /\ suspended \subseteq Calls /\ \A k \in suspended : k <= arrived
      /\ \A k \in 1 .. arrived : k \in Calls
  BY CallFacts, BoundAssumption DEF IInv, TypeOK, Calls
<1>2. Over /\ Arrivals /\ OpenPrompts
  BY DEF IInv, PromptsInv
<1>3. CASE Quiet
  BY <1>1, <1>2, <1>3 DEF Over, Quiet
<1>4. CASE AtOnce(arrived + 1)
  <2>1. \A k \in 1 .. arrived + 1 : k # arrived + 1 => k \in 1 .. arrived
    BY <1>1
  <2>2. QED
    BY <1>1, <1>2, <1>4, <2>1 DEF Over, AtOnce, Arrives
<1>5. ASSUME NEW c \in Conns, Suspends(arrived + 1, c) PROVE Over'
  <2>1. \A k \in 1 .. arrived + 1 : k # arrived + 1 => k \in 1 .. arrived
    BY <1>1
  <2>2. QED
    BY <1>1, <1>2, <1>5, <2>1 DEF Over, Suspends, Arrives
<1>6. ASSUME NEW d, NEW n, NEW word, NEW at, Ends(d, n, word, at) PROVE Over'
  <2>1. \A k \in 1 .. arrived : k \notin suspended => k \in Calls /\ k # n
    BY <1>1, <1>6 DEF Ends
  <2>2. QED
    BY <1>2, <1>6, <2>1 DEF Over, Ends
<1>7. ASSUME NEW n \in Calls, Returns(n), n \in deleted \/ reply'[n].outcome # "none" PROVE Over'
  <2>1. \A k \in 1 .. arrived : k # n /\ k \notin suspended' => k \in Calls /\ k \notin suspended
    BY <1>1, <1>7 DEF Returns
  <2>2. n \in deleted \/ reply'[n].at \in {NoCall, request'[n].at}
    BY <1>2, <1>7 DEF Returns, OpenPrompts
  <2>3. QED
    BY <1>2, <1>7, <2>1, <2>2 DEF Over, Returns
<1>8. ASSUME NEW n \in Calls, Resumes(n) PROVE Over'
  <2>1. reply'[n].outcome # "none"
    BY <1>8 DEF Resumes
  <2>2. QED
    BY <1>7, <1>8, <2>1 DEF Resumes
<1>9. CASE Locks
  BY <1>1, <1>2, <1>9 DEF Over, Locks
<1>10. QED
  BY <1>3, <1>4, <1>5, <1>6, <1>7, <1>8, <1>9, StepEffect DEF ResumesDeleted

\* A call that waits is the last of its profile that prompted.
LEMMA LastPromptStep ==
  ASSUME IInv, [Next]_vars
  PROVE  LastPrompt'
<1>1. arrived \in Nat /\ suspended \subseteq Calls /\ \A k \in suspended : k <= arrived
  BY CallFacts
<1>2. LastPrompt /\ Arrivals
  BY DEF IInv, PromptsInv
<1>3. CASE Quiet
  BY <1>1, <1>2, <1>3 DEF LastPrompt, Waiting, Quiet
<1>4. CASE AtOnce(arrived + 1)
  <2>1. arrived + 1 \notin suspended /\ request'[arrived + 1].prompt = "none"
    BY <1>1, <1>4 DEF AtOnce
  <2>2. Waiting' = Waiting /\ \A k \in Calls : k # arrived + 1 => request'[k] = request[k]
    BY <1>4 DEF Waiting, AtOnce, Arrives
  <2>3. \A k \in Waiting : k \in Calls /\ k # arrived + 1
    BY <1>1, <2>1 DEF Waiting
  <2>4. QED
    BY <1>2, <2>1, <2>2, <2>3 DEF LastPrompt
<1>5. ASSUME NEW c \in Conns, Suspends(arrived + 1, c) PROVE LastPrompt'
  <2> DEFINE a == arrived + 1
  <2>1. a \in Calls /\ a \notin suspended /\ request'[a].conn = c
    BY <1>1, <1>5 DEF Suspends, Arrives
  <2>2. \A n \in Waiting : request[n].conn # c
    <3>1. m_waitingRequests[IdOf(c)] = NoCall
      BY <1>5 DEF Suspends
    <3>2. \A n \in Waiting : n \in Calls /\ m_waitingRequests[IdOf(request[n].conn)] = n
      BY <1>1 DEF IInv, WaitingIsSuspended, Waiting
    <3>3. QED
      BY <3>1, <3>2, NoCallIsNone
  <2>3. \A k \in Calls : k # a => request'[k] = request[k]
    BY <1>5 DEF Suspends, Arrives
  <2>4. \A k \in Calls : request'[k].prompt # "none" => k <= a
    <3>1. \A k \in Calls : k > a => request[k].prompt = "none"
      BY <1>1, <1>2, BoundAssumption DEF Arrivals, NoRequest, Calls
    <3>2. QED
      BY <1>1, <2>3, <3>1, BoundAssumption DEF Calls
  <2>5. \A n \in Waiting' : n = a \/ n \in Waiting
    BY <1>5 DEF Suspends, Arrives, Waiting
  <2>6. ASSUME NEW n \in Waiting', NEW k \in Calls, request'[k].conn = request'[n].conn, request'[k].prompt # "none"
        PROVE  k <= n
    <3>1. CASE n = a
      BY <2>4, <2>6, <3>1
    <3>2. CASE n # a
      <4>1. n \in Waiting /\ n \in Calls /\ request'[n] = request[n]
        BY <1>1, <2>3, <2>5, <2>6, <3>2 DEF Waiting
      <4>2. k # a
        BY <2>1, <2>2, <2>6, <4>1
      <4>3. QED
        BY <1>2, <2>3, <2>6, <4>1, <4>2 DEF LastPrompt
    <3>3. QED
      BY <3>1, <3>2
  <2>7. QED
    BY <2>6 DEF LastPrompt
<1>6. ASSUME NEW d, NEW n, NEW word, NEW at, Ends(d, n, word, at) PROVE LastPrompt'
  BY <1>1, <1>2, <1>6 DEF LastPrompt, Waiting, Ends
<1>7. ASSUME NEW n \in Calls, Returns(n) PROVE LastPrompt'
  <2>1. \A k \in Calls : request'[k].conn = request[k].conn /\ request'[k].prompt = request[k].prompt
    BY <1>7 DEF Returns
  <2>2. Waiting' \subseteq Waiting
    BY <1>7 DEF Returns, Waiting
  <2>3. QED
    BY <1>1, <1>2, <2>1, <2>2 DEF LastPrompt, Waiting
<1>8. CASE Locks
  <2>1. Waiting' = {}
    BY <1>8 DEF Locks, Waiting
  <2>2. QED
    BY <2>1 DEF LastPrompt
<1>9. QED
  BY <1>3, <1>4, <1>5, <1>6, <1>7, <1>8, StepEffect DEF Resumes, ResumesDeleted

\* A verdict is the last word of its own user or timer.
LEMMA VerdictsStep ==
  ASSUME IInv, [Next]_vars
  PROVE  Verdicts'
<1>1. /\ arrived \in Nat /\ suspended \subseteq Calls /\ \A k \in suspended : k <= arrived
      /\ Verdicts /\ Arrivals /\ deleted \subseteq deleted'
  BY CallFacts, CallsStay DEF IInv, PromptsInv
<1> DEFINE Held(n) == (request'[n].canceled /\ n \in timedOut') \/ OwnAfter(n, request'[n].at)
<1>2. ASSUME NEW n \in Calls \ deleted, request[n].exiting,
             request'[n].canceled = request[n].canceled, request'[n].at = request[n].at,
             n \in timedOut => n \in timedOut'
      PROVE  Held(n)
  <2>1. (request[n].canceled /\ n \in timedOut) \/ Own(n, request[n].at)
    BY <1>1, <1>2 DEF Verdicts
  <2>2. n <= arrived
    BY <1>1, <1>2, BoundAssumption DEF Arrivals, NoRequest, Calls
  <2>3. QED
    BY <1>2, <2>1, <2>2, OwnStays
<1>3. ASSUME \A n \in Calls \ deleted' : request'[n].exiting => Held(n)
      PROVE  Verdicts'
  BY <1>3 DEF Verdicts, OwnAfter, Own, Missed
<1>4. CASE Quiet
  <2>1. \A n \in Calls : /\ request'[n].exiting <=> request[n].exiting
                         /\ request'[n].canceled = request[n].canceled /\ request'[n].at = request[n].at
                         /\ n \in timedOut => n \in timedOut'
    BY <1>4 DEF Quiet
  <2> HIDE DEF Held
  <2>2. QED
    BY <1>1, <1>2, <1>3, <2>1
<1>5. ASSUME Arrives(arrived + 1), ~request'[arrived + 1].exiting
      PROVE  Verdicts'
  <2>1. \A n \in Calls : n # arrived + 1 => request'[n] = request[n]
    BY <1>5 DEF Arrives
  <2>2. timedOut' = timedOut
    BY <1>5 DEF Arrives
  <2> HIDE DEF Held
  <2>3. QED
    BY <1>1, <1>2, <1>3, <1>5, <2>1, <2>2
<1>6. ASSUME NEW d \in Calls, NEW n \in Calls \cup {NoCall}, NEW word \in Words, NEW at \in Calls, Ends(d, n, word, at)
      PROVE  Verdicts'
  <2>1. ASSUME NEW k \in Calls \ deleted, request'[k].exiting PROVE Held(k)
    <3>1. CASE k = n
      <4>1. CASE word = "timeout"
        BY <1>6, <3>1, <4>1 DEF Ends
      <4>2. CASE word # "timeout"
        <5>1. Own(n, at) /\ request'[n].at = at /\ n <= arrived /\ n \in Calls
          BY <1>1, <1>6, <3>1, <4>2 DEF Ends
        <5>2. OwnAfter(n, at)
          BY <5>1, OwnStays
        <5>3. QED
          BY <3>1, <5>1, <5>2
      <4>3. QED
        BY <4>1, <4>2
    <3>2. CASE k # n
      <4>1. k # d
        BY <1>6, <2>1, <3>2 DEF Ends
      <4>2. request'[k] = request[k] /\ (k \in timedOut => k \in timedOut')
        BY <1>6, <2>1, <3>2, <4>1 DEF Ends
      <4> HIDE DEF Held
      <4>3. QED
        BY <1>2, <2>1, <4>2
    <3>3. QED
      BY <3>1, <3>2
  <2> HIDE DEF Held
  <2>2. QED
    BY <1>1, <1>3, <2>1
<1>7. ASSUME NEW n \in Calls, Returns(n) PROVE Verdicts'
  <2>1. \A k \in Calls : /\ request'[k].exiting <=> request[k].exiting
                         /\ request'[k].canceled = request[k].canceled /\ request'[k].at = request[k].at
                         /\ k \in timedOut => k \in timedOut'
    BY <1>7 DEF Returns
  <2> HIDE DEF Held
  <2>2. QED
    BY <1>1, <1>2, <1>3, <2>1
<1>8. CASE Locks
  <2>1. request' = request /\ timedOut' = timedOut
    BY <1>8 DEF Locks
  <2> HIDE DEF Held
  <2>2. QED
    BY <1>1, <1>2, <1>3, <2>1
<1>9. QED
  BY <1>4, <1>5, <1>6, <1>7, <1>8, StepEffect DEF Resumes, ResumesDeleted, AtOnce, Suspends

\* A dialog that has closed keeps its verdict.
LEMMA DialogsFinalStep ==
  ASSUME IInv, [Next]_vars
  PROVE  DialogsFinal'
<1>1. /\ DialogsFinal /\ Arrivals /\ arrived \in Nat /\ request \in [Calls -> Request]
      /\ deleted \subseteq Calls /\ \A k \in deleted : k <= arrived
  BY CallFacts, BoundAssumption DEF IInv, PromptsInv, TypeOK, Arrivals, Calls
<1>2. ASSUME NEW n \in Calls, request'[n].conn = request[n].conn, Unlocked(n)' PROVE Unlocked(n)
  <2>1. \A k \in deleted : k \in deleted' /\ request'[k].conn = request[k].conn
    BY <1>1, CallsStay
  <2>2. QED
    BY <1>2, <2>1 DEF Unlocked
<1>3. CASE Quiet
  BY <1>1, <1>2, <1>3 DEF DialogsFinal, Quiet
<1>4. CASE AtOnce(arrived + 1)
  BY <1>1, <1>2, <1>4 DEF DialogsFinal, AtOnce, Arrives
<1>5. ASSUME NEW c \in Conns, Suspends(arrived + 1, c) PROVE DialogsFinal'
  <2>1. said[arrived + 1] = "nothing"
    BY <1>1, <1>5 DEF Arrivals, Suspends, Arrives
  <2>2. QED
    BY <1>1, <1>2, <1>5, <2>1 DEF DialogsFinal, Suspends, Arrives
<1>6. ASSUME NEW d \in Calls, NEW n \in Calls \cup {NoCall}, NEW word \in Words, NEW at \in Calls, Ends(d, n, word, at)
      PROVE  DialogsFinal'
  <2> SUFFICES ASSUME NEW k \in Calls, request'[k].prompt = "dialog"
               PROVE  /\ KindOf[request'[k].conn] \notin PanelKinds
                      /\ request'[k].exiting => request'[k].timer = "off"
                      /\ said'[k] = "password" /\ Unlocked(k)' => request'[k].exiting /\ ~request'[k].canceled
    BY DEF DialogsFinal
  <2>1. /\ request[k].prompt = "dialog" /\ request'[k].conn = request[k].conn
        /\ request'[k].timer \in {request[k].timer, "off"}
        /\ KindOf[request[k].conn] \notin PanelKinds
        /\ request[k].exiting => request[k].timer = "off"
        /\ said[k] = "password" /\ Unlocked(k) => request[k].exiting /\ ~request[k].canceled
    BY <1>1, <1>6 DEF Ends, DialogsFinal
  <2>2. k = n /\ n # d => ~Unlocked(k)
    BY <1>6 DEF Ends, Unlocked
  <2>3. k = d /\ n # d => ~Unlocked(k)
    BY <1>6 DEF Ends, Unlocked
  <2>4. CASE k = d /\ k = n
    BY <1>2, <1>6, <2>1, <2>4 DEF Ends, Words
  <2>5. CASE k # d /\ k = n
    BY <1>2, <1>6, <2>1, <2>2, <2>5 DEF Ends
  <2>6. CASE k = d /\ k # n
    BY <1>2, <1>6, <2>1, <2>3, <2>6 DEF Ends
  <2>7. CASE k # d /\ k # n
    BY <1>2, <1>6, <2>1, <2>7 DEF Ends
  <2>8. QED
    BY <2>4, <2>5, <2>6, <2>7
<1>7. ASSUME NEW n \in Calls, Returns(n) PROVE DialogsFinal'
  <2>1. \A k \in Calls : /\ request'[k].conn = request[k].conn /\ request'[k].prompt = request[k].prompt
                         /\ request'[k].canceled = request[k].canceled
                         /\ request'[k].exiting <=> request[k].exiting
                         /\ request'[k].timer \in {request[k].timer, "off"} /\ said'[k] = said[k]
    BY <1>7 DEF Returns
  <2>2. QED
    BY <1>1, <1>2, <2>1 DEF DialogsFinal
<1>8. CASE Locks
  BY <1>1, <1>2, <1>8 DEF DialogsFinal, Locks
<1>9. QED
  BY <1>3, <1>4, <1>5, <1>6, <1>7, <1>8, StepEffect DEF Resumes, ResumesDeleted

\* An answer is given when a call returns, and nothing is told to a call that has it.
LEMMA ReplyCases ==
  ASSUME IInv, [Next]_vars, NEW n \in Calls
  PROVE  /\ n \in timedOut => n \in timedOut'
         /\ \/ reply'[n] = reply[n] /\ (reply[n].outcome # "none" => said'[n] = said[n])
            \/ reply'[n].outcome # "password" /\ request'[n].prompt = "none"
            \/ Resumes(n)
            \/ n \in deleted
<1>1. arrived \in Nat /\ OpenPrompts
  BY CallFacts DEF IInv, PromptsInv
<1> DEFINE Goal == /\ n \in timedOut => n \in timedOut'
                   /\ \/ reply'[n] = reply[n] /\ (reply[n].outcome # "none" => said'[n] = said[n])
                      \/ reply'[n].outcome # "password" /\ request'[n].prompt = "none"
                      \/ Resumes(n)
                      \/ n \in deleted
<1>2. CASE Quiet
  BY <1>2 DEF Quiet
<1>3. CASE AtOnce(arrived + 1)
  BY <1>3 DEF AtOnce, Arrives
<1>4. ASSUME NEW c \in Conns, Suspends(arrived + 1, c) PROVE Goal
  BY <1>4 DEF Suspends, Arrives
<1>5. ASSUME NEW d \in Calls, NEW k \in Calls \cup {NoCall}, NEW word \in Words, NEW at \in Calls, Ends(d, k, word, at)
      PROVE  Goal
  <2>1. n = k => reply[n].outcome = "none"
    BY <1>1, <1>5 DEF Ends, OpenPrompts
  <2>2. QED
    BY <1>5, <2>1 DEF Ends
<1>6. ASSUME NEW k \in Calls, Resumes(k) PROVE Goal
  BY <1>6 DEF Resumes, Returns
<1>7. ASSUME NEW k \in Calls, ResumesDeleted(k) PROVE Goal
  BY <1>7 DEF ResumesDeleted, Returns
<1>8. CASE Locks
  BY <1>8 DEF Locks
<1>9. QED
  BY <1>2, <1>3, <1>4, <1>5, <1>6, <1>7, <1>8, StepEffect

\* Answers are given once, so what holds of a reply goes on to hold.
LEMMA RepliesStep ==
  ASSUME IInv, [Next]_vars
  PROVE  (OwnPassword /\ PromptCanceledByUser /\ DialogDelivered)'
<1>1. /\ OwnPassword /\ PromptCanceledByUser /\ DialogDelivered
      /\ Arrivals /\ Verdicts /\ DialogsFinal
      /\ arrived \in Nat /\ deleted \subseteq deleted'
      /\ \A n \in deleted : n \in Calls /\ n <= arrived
  BY CallFacts, CallsStay, BoundAssumption DEF IInv, PromptsInv, TypeOK, Arrivals, Calls
<1>2. ASSUME NEW n \in Calls, reply[n].outcome # "none" PROVE n <= arrived
  BY <1>1, <1>2, BoundAssumption DEF Arrivals, Replied, Calls
<1>3. ASSUME NEW n \in Calls, Resumes(n)
      PROVE  /\ n <= arrived /\ request[n].exiting /\ n \notin deleted
             /\ request'[n].prompt = request[n].prompt /\ request'[n].conn = request[n].conn
             /\ said'[n] = said[n]
  BY <1>3, CallFacts DEF Resumes, Returns
<1>4. ASSUME NEW n \in Calls, Resumes(n), reply'[n].outcome \in {"password", "UserCanceled"}
      PROVE  \/ reply'[n].outcome = "UserCanceled" /\ n \in timedOut'
             \/ OwnAfter(n, reply'[n].at)
  <2>1. reply'[n].at = request[n].at /\ (reply'[n].outcome = "password" <=> ~request[n].canceled)
    BY <1>4 DEF Resumes
  <2>2. (request[n].canceled /\ n \in timedOut) \/ Own(n, request[n].at)
    BY <1>1, <1>3, <1>4 DEF Verdicts
  <2>3. QED
    BY <1>3, <1>4, <2>1, <2>2, OwnStays, ReplyCases
<1>5. ASSUME NEW n \in Calls \ deleted', reply'[n].outcome = "password" PROVE OwnAfter(n, reply'[n].at)
  <2>1. CASE reply'[n] = reply[n]
    <3>1. Own(n, reply[n].at) /\ n <= arrived
      BY <1>1, <1>2, <1>5, <2>1 DEF OwnPassword
    <3>2. QED
      BY <2>1, <3>1, OwnStays
  <2>2. CASE Resumes(n)
    BY <1>4, <1>5, <2>2
  <2>3. QED
    BY <1>1, <1>5, <2>1, <2>2, ReplyCases
<1>6. ASSUME NEW n \in Calls \ deleted', reply'[n].outcome = "UserCanceled", request'[n].prompt # "none"
      PROVE  n \in timedOut' \/ OwnAfter(n, reply'[n].at)
  <2>1. CASE reply'[n] = reply[n]
    <3>1. n <= arrived /\ request'[n].prompt = request[n].prompt
      BY <1>2, <1>6, <2>1, CallsStay
    <3>2. n \in timedOut \/ Own(n, reply[n].at)
      BY <1>1, <1>6, <2>1, <3>1 DEF PromptCanceledByUser
    <3>3. QED
      BY <2>1, <3>1, <3>2, OwnStays, ReplyCases
  <2>2. CASE Resumes(n)
    BY <1>4, <1>6, <2>2
  <2>3. QED
    BY <1>1, <1>6, <2>1, <2>2, ReplyCases
<1>7. ASSUME NEW n \in Calls, n <= arrived, Unlocked(n)' PROVE Unlocked(n) /\ n \notin deleted
  <2>1. \A k \in deleted : k \in deleted' /\ request'[k].conn = request[k].conn
    BY <1>1, CallsStay
  <2>2. QED
    BY <1>7, <2>1, CallsStay DEF Unlocked
<1>8. ASSUME NEW n \in Calls, request'[n].prompt = "dialog", said'[n] = "password",
             reply'[n].outcome # "none", Unlocked(n)'
      PROVE  \/ reply'[n].outcome = "password"
             \/ reply'[n].outcome = "InternalError" /\ request'[n].conn \in AgentOwned
  <2>1. CASE reply'[n] = reply[n] /\ said'[n] = said[n]
    <3>1. /\ n <= arrived /\ request'[n].prompt = request[n].prompt
          /\ request'[n].conn = request[n].conn
      BY <1>2, <1>8, <2>1, CallsStay
    <3>2. QED
      BY <1>1, <1>7, <1>8, <2>1, <3>1 DEF DialogDelivered
  <2>2. CASE Resumes(n)
    <3>1. ~request[n].canceled
      BY <1>1, <1>3, <1>7, <1>8, <2>2 DEF DialogsFinal
    <3>2. QED
      BY <1>3, <2>2, <3>1 DEF Resumes
  <2>3. n \notin deleted
    BY <1>1, <1>7, <1>8
  <2>4. QED
    BY <1>8, <2>1, <2>2, <2>3, ReplyCases
<1>9. OwnPassword'
  BY <1>5 DEF OwnPassword, OwnAfter, Own, Missed
<1>10. PromptCanceledByUser'
  BY <1>6 DEF PromptCanceledByUser, OwnAfter, Own, Missed
<1>11. DialogDelivered'
  BY <1>8 DEF DialogDelivered
<1>12. QED
  BY <1>9, <1>10, <1>11

\* Unanswered in the next state.
UnansweredAfter(k, c) ==
  /\ k \in 1 .. arrived'
  /\ request'[k].conn = c /\ KindOf[c] \in PanelKinds
  /\ request'[k].prompt = "panel" /\ request'[k].at # k

\* A prompt of the panel is answered only by its own message.
LEMMA UnansweredStays ==
  ASSUME IInv, [Next]_vars, NEW k, NEW c, Unanswered(k, c), PanelAnswer => Head(answers).at # k
  PROVE  UnansweredAfter(k, c)
<1>1. /\ k \in Calls /\ k <= arrived /\ arrived \in Nat /\ k # NoCall /\ k \in 1 .. arrived
      /\ request[k].conn = c /\ request[k].prompt = "panel" /\ request[k].at # k
  BY CallFacts, NoCallIsNone, BoundAssumption DEF Unanswered, IInv, TypeOK, Calls
<1>2. request'[k].conn = c /\ request'[k].prompt = "panel"
  BY <1>1, CallsStay
<1>3. ASSUME arrived' = arrived, request'[k].at # k PROVE UnansweredAfter(k, c)
  BY <1>1, <1>2, <1>3 DEF Unanswered, UnansweredAfter
<1>4. CASE Quiet
  BY <1>1, <1>3, <1>4 DEF Quiet
<1>5. ASSUME Arrives(arrived + 1) PROVE UnansweredAfter(k, c)
  <2>1. k # arrived + 1 /\ k \in 1 .. arrived + 1 /\ arrived' = arrived + 1
    BY <1>1, <1>5 DEF Arrives
  <2>2. request'[k] = request[k]
    BY <1>1, <1>5, <2>1 DEF Arrives
  <2>3. QED
    BY <1>1, <1>2, <2>1, <2>2 DEF Unanswered, UnansweredAfter
<1>6. ASSUME NEW d \in Calls, NEW n \in Calls \cup {NoCall}, NEW word \in Words, NEW at \in Calls,
             Ends(d, n, word, at), word = "timeout" \/ request[d].prompt = "dialog" \/ (PanelAnswer /\ at = Head(answers).at)
      PROVE  UnansweredAfter(k, c)
  <2>1. CASE word = "timeout"
    <3>1. request'[k].at # k
      BY <1>1, <1>6, <2>1 DEF Ends
    <3>2. QED
      BY <1>3, <1>6, <3>1 DEF Ends
  <2>2. CASE request[d].prompt = "dialog"
    <3>1. at # k
      BY <1>1, <1>6, <2>2 DEF Ends
    <3>2. request'[k].at # k
      BY <1>1, <1>6, <3>1 DEF Ends
    <3>3. QED
      BY <1>3, <1>6, <3>2 DEF Ends
  <2>3. CASE PanelAnswer /\ at = Head(answers).at
    <3>1. at # k
      BY <2>3
    <3>2. request'[k].at # k
      BY <1>1, <1>6, <3>1 DEF Ends
    <3>3. QED
      BY <1>3, <1>6, <3>2 DEF Ends
  <2>4. QED
    BY <1>6, <2>1, <2>2, <2>3
<1>7. ASSUME NEW n \in Calls, Returns(n) PROVE UnansweredAfter(k, c)
  <2>1. request'[k].at # k
    BY <1>1, <1>7 DEF Returns
  <2>2. QED
    BY <1>3, <1>7, <2>1 DEF Returns
<1>8. CASE Locks
  BY <1>1, <1>3, <1>8 DEF Locks
<1>9. QED
  BY <1>4, <1>5, <1>6, <1>7, <1>8, StepEffect DEF Resumes, ResumesDeleted, AtOnce, Suspends

\* A step that takes a message is PanelAnswer.
LEMMA MessageTaken ==
  ASSUME TypeOK, PanelAnswer
  PROVE  /\ Len(answers) \in Nat /\ Len(answers) > 0 /\ Len(answers') = Len(answers) - 1
         /\ 1 \in DOMAIN answers /\ Head(answers) = answers[1]
         /\ \A i \in DOMAIN answers' : i + 1 \in DOMAIN answers /\ i + 1 # 1 /\ answers'[i] = answers[i + 1]
         /\ \A i, j \in DOMAIN answers' : i # j => i + 1 # j + 1
<1>1. answers \in Seq(Answer) /\ answers # <<>> /\ answers' = Tail(answers)
  BY DEF TypeOK, PanelAnswer
<1>2. QED
  BY <1>1

\* A message the panel sends is added behind the others.
LEMMA MessageSent ==
  ASSUME TypeOK, NEW c \in Conns, NEW word \in {"password", "cancel"}, PanelSends(c, word)
  PROVE  LET m == [id |-> <<m_currentWirelessDevice, c>>, word |-> word, at |-> waitingForPassword[c]] IN
         /\ m \in Answer /\ Len(answers) \in Nat /\ Len(answers') = Len(answers) + 1
         /\ DOMAIN answers = 1 .. Len(answers) /\ DOMAIN answers' = 1 .. Len(answers) + 1
         /\ \A i \in DOMAIN answers' : answers'[i] = IF i = Len(answers) + 1 THEN m ELSE answers[i]
<1> DEFINE m == [id |-> <<m_currentWirelessDevice, c>>, word |-> word, at |-> waitingForPassword[c]]
<1>1. m \in Answer /\ answers' = Append(answers, m) /\ answers \in Seq(Answer)
  BY DEF PanelSends, TypeOK, Answer, Ids
<1> HIDE DEF m
<1>2. /\ Len(answers) \in Nat /\ Len(answers') = Len(answers) + 1
      /\ DOMAIN answers = 1 .. Len(answers) /\ DOMAIN answers' = 1 .. Len(answers) + 1
      /\ \A i \in DOMAIN answers' : answers'[i] = IF i = Len(answers) + 1 THEN m ELSE answers[i]
  BY <1>1
<1>3. QED
  BY <1>1, <1>2 DEF m

\* What a step does to the panel's prompts and messages.
LEMMA PanelEffect ==
  ASSUME IInv, [Next]_vars
  PROVE  \/ PanelAnswer
         \/ \E c \in Conns, in \in Inputs : GetSecretsPanel(c, in)
         \/ \E c \in Conns, word \in {"password", "cancel"} : PanelSends(c, word)
         \/ UNCHANGED <<waitingForPassword, answers>>
  BY DEF Next, GetSecrets, GetSecretsAtOnce, GetSecretsDialog, Resume, ResumeDeleted, TimerFires, SaveSecrets,
     DeleteSecrets, KeyRingClear, KeyRingInit, User, DialogAnswer, DialogEdited, PanelSelects, vars, panelVars

\* Each prompt of the panel is answered once.
LEMMA AnsweredOnceStep ==
  ASSUME IInv, [Next]_vars
  PROVE  AnsweredOnce'
<1>1. /\ \A c \in Conns : waitingForPassword[c] # NoCall =>
           /\ Unanswered(waitingForPassword[c], c)
           /\ \A i \in DOMAIN answers : answers[i].at # waitingForPassword[c]
      /\ \A i \in DOMAIN answers :
           /\ Unanswered(answers[i].at, answers[i].id[2])
           /\ \A j \in DOMAIN answers : j # i => answers[j].at # answers[i].at
      /\ waitingForPassword \in [Conns -> Calls \cup {NoCall}]
      /\ NoCall \notin Calls /\ TypeOK
  BY NoCallIsNone DEF IInv, PromptsInv, AnsweredOnce, TypeOK
<1>2. ASSUME \A c \in Conns : waitingForPassword'[c] # NoCall =>
               /\ UnansweredAfter(waitingForPassword'[c], c)
               /\ \A i \in DOMAIN answers' : answers'[i].at # waitingForPassword'[c],
             \A i \in DOMAIN answers' :
               /\ UnansweredAfter(answers'[i].at, answers'[i].id[2])
               /\ \A j \in DOMAIN answers' : j # i => answers'[j].at # answers'[i].at
      PROVE  AnsweredOnce'
  BY <1>2 DEF AnsweredOnce, Unanswered, UnansweredAfter
<1>3. ASSUME answers' = answers \/ Len(answers') = Len(answers) + 1 PROVE ~PanelAnswer
  BY <1>1, <1>3, MessageTaken
<1>4. CASE PanelAnswer
  <2>1. /\ 1 \in DOMAIN answers /\ Head(answers) = answers[1]
        /\ \A i \in DOMAIN answers' : i + 1 \in DOMAIN answers /\ i + 1 # 1 /\ answers'[i] = answers[i + 1]
        /\ \A i, j \in DOMAIN answers' : i # j => i + 1 # j + 1
        /\ waitingForPassword' = waitingForPassword
    BY <1>1, <1>4, MessageTaken DEF PanelAnswer
  <2>2. ASSUME NEW c \in Conns, waitingForPassword'[c] # NoCall
        PROVE  /\ UnansweredAfter(waitingForPassword'[c], c)
               /\ \A i \in DOMAIN answers' : answers'[i].at # waitingForPassword'[c]
    BY <1>1, <2>1, <2>2, UnansweredStays
  <2>3. ASSUME NEW i \in DOMAIN answers'
        PROVE  /\ UnansweredAfter(answers'[i].at, answers'[i].id[2])
               /\ \A j \in DOMAIN answers' : j # i => answers'[j].at # answers'[i].at
    BY <1>1, <2>1, UnansweredStays
  <2>4. QED
    BY <1>2, <2>2, <2>3
<1>5. ASSUME NEW c \in Conns, NEW in \in Inputs, GetSecretsPanel(c, in) PROVE AnsweredOnce'
  <2> DEFINE a == arrived + 1
  <2>1. answers' = answers /\ ~PanelAnswer /\ waitingForPassword' = [waitingForPassword EXCEPT ![c] = a]
    BY <1>3, <1>5 DEF GetSecretsPanel, ShowPasswordError
  <2>2. Suspends(a, c) /\ request'[a].prompt = "panel" /\ arrived \in Nat
    BY <1>5, SuspendEffect, CallFacts DEF GetSecretsPanel
  <2>3. UnansweredAfter(a, c)
    BY <1>1, <1>5, <2>2 DEF UnansweredAfter, Suspends, Arrives, GetSecretsPanel, PanelKinds
  <2>4. \A k : Unanswered(k, c) => k # a
    BY <2>2 DEF Unanswered
  <2>5. \A k, b : Unanswered(k, b) => k # a /\ UnansweredAfter(k, b)
    <3>1. ASSUME NEW k, NEW b, Unanswered(k, b) PROVE k # a /\ UnansweredAfter(k, b)
      <4>1. k # a
        BY <2>2, <3>1 DEF Unanswered
      <4>2. QED
        BY <2>1, <3>1, <4>1, UnansweredStays
    <3>2. QED
      BY <3>1
  <2> HIDE DEF a
  <2>6. \A b \in Conns : waitingForPassword'[b] = IF b = c THEN a ELSE waitingForPassword[b]
    BY <1>1, <2>1
  <2>7. QED
    BY <1>1, <1>2, <2>1, <2>3, <2>5, <2>6
<1>6. ASSUME NEW c \in Conns, NEW word \in {"password", "cancel"}, PanelSends(c, word) PROVE AnsweredOnce'
  <2> DEFINE m == [id |-> <<m_currentWirelessDevice, c>>, word |-> word, at |-> waitingForPassword[c]]
             l == Len(answers) + 1
  <2>1. /\ Len(answers') = l /\ DOMAIN answers = 1 .. Len(answers) /\ DOMAIN answers' = 1 .. l /\ Len(answers) \in Nat
        /\ \A i \in DOMAIN answers' : answers'[i] = IF i = l THEN m ELSE answers[i]
    BY <1>1, <1>6, MessageSent
  <2>2. ~PanelAnswer
    BY <1>3, <2>1
  <2>3. /\ waitingForPassword[c] # NoCall
        /\ \A b \in Conns : waitingForPassword'[b] = IF b = c THEN NoCall ELSE waitingForPassword[b]
    BY <1>1, <1>6 DEF PanelSends
  <2>4. m.at = waitingForPassword[c] /\ m.id[2] = c
    OBVIOUS
  <2> HIDE DEF m
  <2>5. Unanswered(m.at, c) /\ \A i \in DOMAIN answers : answers[i].at # m.at
    BY <1>1, <2>3, <2>4
  <2>6. \A k, b : Unanswered(k, b) => UnansweredAfter(k, b)
    BY <2>2, UnansweredStays
  <2>7. \A i \in DOMAIN answers' : i # l => i \in DOMAIN answers /\ answers'[i] = answers[i]
    BY <2>1
  <2>8. \A i \in DOMAIN answers' : i = l => answers'[i] = m
    BY <2>1
  <2> HIDE DEF l
  <2>9. ASSUME NEW b \in Conns, waitingForPassword'[b] # NoCall
        PROVE  /\ UnansweredAfter(waitingForPassword'[b], b)
               /\ \A i \in DOMAIN answers' : answers'[i].at # waitingForPassword'[b]
    <3>1. b # c /\ waitingForPassword'[b] = waitingForPassword[b]
      BY <2>3, <2>9
    <3>2. Unanswered(waitingForPassword[b], b) /\ \A i \in DOMAIN answers : answers[i].at # waitingForPassword[b]
      BY <1>1, <2>9, <3>1
    <3>3. m.at # waitingForPassword[b]
      BY <2>5, <3>1, <3>2 DEF Unanswered
    <3>4. QED
      BY <2>6, <2>7, <2>8, <3>1, <3>2, <3>3
  <2>10. ASSUME NEW i \in DOMAIN answers'
         PROVE  UnansweredAfter(answers'[i].at, answers'[i].id[2])
    BY <1>1, <2>4, <2>5, <2>6, <2>7, <2>8
  <2>11. ASSUME NEW i \in DOMAIN answers', NEW j \in DOMAIN answers', j # i
         PROVE  answers'[j].at # answers'[i].at
    BY <1>1, <2>5, <2>7, <2>8, <2>11
  <2>12. QED
    BY <1>2, <2>9, <2>10, <2>11
<1>7. CASE UNCHANGED <<waitingForPassword, answers>>
  <2>1. ~PanelAnswer
    BY <1>3, <1>7
  <2>2. \A k, b : Unanswered(k, b) => UnansweredAfter(k, b)
    BY <2>1, UnansweredStays
  <2>3. QED
    BY <1>1, <1>2, <1>7, <2>2
<1>8. QED
  BY <1>4, <1>5, <1>6, <1>7, PanelEffect

-----------------------------------------------------------------------------
(* The theorems.                                                           *)

\* The agent starts with no call.
LEMMA InitInvariant == Init => IInv
<1> SUFFICES ASSUME Init PROVE IInv
  OBVIOUS
<1>1. NoRequest \in Request /\ Replied("none") \in Reply
  BY RecordTypes DEF Outcomes
<1>2. TypeOK
  BY <1>1, ConnsAssumption, BoundAssumption DEF Init, TypeOK, Calls
<1>3. WaitingIsSuspended
  BY DEF Init, WaitingIsSuspended, Waiting
<1>4. PromptsInv
  <2>1. \A n \in Calls : n > 0
    BY BoundAssumption DEF Calls
  <2>2. Arrivals
    BY <2>1, BoundAssumption DEF Init, Arrivals, Calls
  <2>3. OpenPrompts /\ Over /\ LastPrompt
    BY DEF Init, OpenPrompts, Over, LastPrompt, Waiting
  <2>4. Verdicts /\ AnsweredOnce /\ DialogsFinal
    BY DEF Init, Verdicts, AnsweredOnce, DialogsFinal, NoRequest
  <2>5. QED
    BY <2>2, <2>3, <2>4 DEF PromptsInv
<1>5. OwnPassword /\ PromptCanceledByUser /\ DialogDelivered
  BY DEF Init, OwnPassword, PromptCanceledByUser, DialogDelivered, Replied, NoRequest
<1>6. QED
  BY <1>2, <1>3, <1>4, <1>5 DEF IInv

\* Every reachable state of the agent satisfies the inductive invariant.
THEOREM Invariance == Spec => []IInv
<1>1. IInv /\ [Next]_vars => IInv'
  BY TypeStep, WaitingStep, ArrivalsStep, OpenPromptsStep, OverStep, LastPromptStep, VerdictsStep,
     AnsweredOnceStep, DialogsFinalStep, RepliesStep DEF IInv, PromptsInv
<1>2. QED
  BY <1>1, InitInvariant, PTL DEF Spec

\* The state of the agent and of the panel keeps its types.
THEOREM TypesKept == Spec => []TypeOK
<1>1. IInv => TypeOK
  BY DEF IInv
<1>2. QED
  BY <1>1, Invariance, PTL

\* m_waitingRequests never loses a suspended call and never keeps a finished one.
THEOREM WaitingFollowsSuspended == Spec => []WaitingIsSuspended
<1>1. IInv => WaitingIsSuspended
  BY DEF IInv
<1>2. QED
  BY <1>1, Invariance, PTL

\* A password was typed at the prompt of its call, or came too late for an earlier call of the profile.
THEOREM PasswordsOwn == Spec => []OwnPassword
<1>1. IInv => OwnPassword
  BY DEF IInv
<1>2. QED
  BY <1>1, Invariance, PTL

\* A call that prompted is cancelled by its timer, at its own prompt, or by a cancel too late for an earlier call.
THEOREM CancelsOwn == Spec => []PromptCanceledByUser
<1>1. IInv => PromptCanceledByUser
  BY DEF IInv
<1>2. QED
  BY <1>1, Invariance, PTL

\* Credentials submitted in a dialog are delivered unless the keyring refuses them or the screen is locked.
THEOREM DialogsDelivered == Spec => []DialogDelivered
<1>1. IInv => DialogDelivered
  BY DEF IInv
<1>2. QED
  BY <1>1, Invariance, PTL

\* Every profile names its interface.
EveryIface == \A c \in Conns : IfaceOf[c] # NoIface

\* The messages of the panel carry the id their request is entered under.
AnswersBound == \A i \in DOMAIN answers : answers[i].id = IdOf(answers[i].id[2])

\* When every profile names its interface the device on show is the request's.
LEMMA AnswersBoundStep ==
  ASSUME EveryIface, IInv, AnswersBound, [Next]_vars
  PROVE  AnswersBound'
<1>1. TypeOK
  BY DEF IInv
<1>2. CASE PanelAnswer
  <2>1. \A i \in DOMAIN answers' : i + 1 \in DOMAIN answers /\ answers'[i] = answers[i + 1]
    BY <1>1, <1>2, MessageTaken
  <2>2. QED
    BY <2>1 DEF AnswersBound, IdOf
<1>3. ASSUME NEW c \in Conns, NEW word \in {"password", "cancel"}, PanelSends(c, word) PROVE AnswersBound'
  <2> DEFINE m == [id |-> <<m_currentWirelessDevice, c>>, word |-> word, at |-> waitingForPassword[c]]
  <2>1. m.id = IdOf(m.id[2])
    BY <1>3 DEF EveryIface, IdOf, PanelSends
  <2>2. /\ DOMAIN answers = 1 .. Len(answers) /\ DOMAIN answers' = 1 .. Len(answers) + 1 /\ Len(answers) \in Nat
        /\ \A i \in DOMAIN answers' : answers'[i] = IF i = Len(answers) + 1 THEN m ELSE answers[i]
    BY <1>1, <1>3, MessageSent
  <2> HIDE DEF m
  <2>3. \A i \in DOMAIN answers' : answers'[i] = m \/ (i \in DOMAIN answers /\ answers'[i] = answers[i])
    BY <2>2
  <2>4. QED
    BY <2>1, <2>3 DEF AnswersBound, IdOf
<1>4. CASE UNCHANGED answers
  BY <1>4 DEF AnswersBound, IdOf
<1>5. ASSUME NEW c \in Conns, NEW in \in Inputs, GetSecretsPanel(c, in) PROVE UNCHANGED answers
  BY <1>5 DEF GetSecretsPanel, ShowPasswordError
<1>6. QED
  BY <1>2, <1>3, <1>4, <1>5, PanelEffect

\* A message is only ever taken by PanelAnswer, which finds the request under its id.
LEMMA TakenMessageEnds ==
  ASSUME IInv, AnswersBound, [Next]_vars, answers # <<>>, answers' = Tail(answers),
         NEW n \in Waiting, request[n].prompt = "panel", Head(answers).id[2] = request[n].conn
  PROVE  request'[n].exiting
<1>1. answers \in Seq(Answer) /\ Len(answers) \in Nat /\ Len(answers') = Len(answers) - 1
  BY DEF IInv, TypeOK
<1>2. n \in Calls /\ n \notin deleted /\ TypeOK
  BY CallFacts DEF IInv, Waiting
<1>3. CASE PanelAnswer
  <2>1. Head(answers).id = IdOf(request[n].conn)
    BY <1>2, <1>3, MessageTaken DEF AnswersBound
  <2>2. m_waitingRequests[Head(answers).id] = n
    BY <2>1 DEF IInv, WaitingIsSuspended
  <2>3. Ends(n, n, Head(answers).word, Head(answers).at)
    BY <1>2, <1>3, <2>2, PanelAnswerEnds
  <2>4. QED
    BY <2>3 DEF Ends
<1>4. ASSUME NEW c \in Conns, NEW word \in {"password", "cancel"}, PanelSends(c, word) PROVE FALSE
  <2>1. Len(answers') = Len(answers) + 1
    BY <1>2, <1>4, MessageSent
  <2>2. QED
    BY <1>1, <2>1
<1>5. ASSUME UNCHANGED answers PROVE FALSE
  BY <1>1, <1>5
<1>6. ASSUME NEW c \in Conns, NEW in \in Inputs, GetSecretsPanel(c, in) PROVE FALSE
  BY <1>5, <1>6 DEF GetSecretsPanel, ShowPasswordError
<1>7. QED
  BY <1>3, <1>4, <1>5, <1>6, PanelEffect

\* Where every profile names its interface, no answer of the panel misses a prompt that waits.
THEOREM AnswersReach == EveryIface /\ Spec => AnswerReaches
<1>1. ASSUME EveryIface PROVE Init => AnswersBound
  BY DEF Init, AnswersBound
<1>2. ASSUME EveryIface PROVE IInv /\ AnswersBound /\ [Next]_vars => AnswersBound'
  BY <1>2, AnswersBoundStep
<1>3. IInv /\ AnswersBound /\ [Next]_vars =>
        [\A n \in Waiting :
            /\ answers # <<>> /\ answers' = Tail(answers)
            /\ request[n].prompt = "panel"
            /\ Head(answers).id[2] = request[n].conn
            => request'[n].exiting]_vars
  BY TakenMessageEnds
<1>4. ASSUME EveryIface PROVE Spec => AnswerReaches
  BY <1>1, <1>2, <1>3, <1>4, Invariance, PTL DEF Spec, AnswerReaches
<1>5. QED
  BY <1>4
=============================================================================
