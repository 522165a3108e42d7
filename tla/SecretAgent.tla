----------------------------- MODULE SecretAgent -----------------------------
(***************************************************************************)
(* KylinSecretAgent: NetworkManager asks it for the secrets of a           *)
(* connection; it answers from the keyring or the profile, or suspends the *)
(* D-Bus handler in a nested event loop while the user types.              *)
(*                                                                         *)
(* KylinAgent gives the agent no thread of its own: KylinAgent is built    *)
(* with a parent, so moveToThread() refuses it, and the agent object is no *)
(* child of it.  Every handler runs in the main thread, a suspended one    *)
(* lets the event loop dispatch the next, and a handler resumes only when  *)
(* the ones suspended after it have returned.  Calls are numbered in the   *)
(* order they are dispatched, so the innermost loop is that of the largest *)
(* suspended number.                                                       *)
(*                                                                         *)
(* A prompt is shown either by the panel (another process: its answers are *)
(* D-Bus messages in flight) or by a modal dialog of this process.  What   *)
(* the user types is abstracted to the call at whose prompt it was typed.  *)
(*                                                                         *)
(* When the screen is locked MainWindow deletes the agent, in the main     *)
(* thread and so under every suspended handler; unlocking makes a new one, *)
(* with an empty m_waitingRequests.  The dialogs of the old one stay open. *)
(***************************************************************************)
EXTENDS Naturals, Sequences

CONSTANTS
    Conns,       \* the connection profiles, by uuid
    Devices,     \* the wireless devices the panel can show
    NoIface,     \* the empty connection.interface-name
    IfaceOf,     \* connection.interface-name of each profile
    KindOf,      \* how each profile is secured
    AgentOwned,  \* the profiles whose secret flags are POLICY_AGENT_OWNED
    Inputs,      \* the forms of call NetworkManager makes
    MaxCalls,    \* bound on the calls of GetSecrets
    NoCall,      \* the null request pointer, no prompt at all
    NoConn       \* the profile of a call not dispatched yet

Calls == 1 .. MaxCalls
Kinds == {"psk", "wep", "leap", "eap"}
Flags == {"AllowInteraction", "RequestNew", "UserRequested"}

(* What one call of GetSecrets is given: the flags; how the hints relate   *)
(* to the stored key; whether the keyring can be read (absent: its service *)
(* is not running); whether the profile itself carries the secret; whether *)
(* its security section is sound, broken or missing; whether               *)
(* com.kylin.network has an owner.                                         *)
AllInputs == [flags : SUBSET Flags, hints : {"none", "stored", "other"},
              keyring : {"ok", "absent", "error"}, inSettings : BOOLEAN,
              form : {"sound", "broken", "missing"}, valid : BOOLEAN]

ASSUME ConnsAssumption == /\ IfaceOf \in [Conns -> Devices \cup {NoIface}]
                          /\ KindOf \in [Conns -> Kinds]
                          /\ AgentOwned \subseteq Conns
ASSUME NullAssumption == /\ NoIface \notin Devices
                         /\ NoConn \notin Conns
                         /\ NoCall \notin Nat
ASSUME BoundAssumption == MaxCalls \in Nat /\ Inputs \subseteq AllInputs

VARIABLES
    arrived,                  \* calls dispatched so far
    suspended,                \* calls whose handler is in a nested event loop
    request,                  \* what each call holds: its SecretWaitRequest and its prompt
    m_waitingRequests,        \* QMap: "interface:uuid" -> the request
    keyring,                  \* profiles with a secret in the keyring
    agent,                    \* m_agent: "up", "none" (locked), or "crashed" with the process
    waitingForPassword,       \* the panel's items: the call whose prompt each one shows
    m_currentWirelessDevice,  \* the device the panel shows
    answers,                  \* submit and cancel messages in flight from the panel
    reply,                    \* what NetworkManager was answered
    said,                     \* history: what was last delivered to each call as the user's word
    timedOut,                 \* history: calls that were told that 120 s ran out
    deleted                   \* history: calls whose agent was deleted under their handler

agentVars == <<arrived, suspended, request, m_waitingRequests, keyring, agent, reply>>
panelVars == <<waitingForPassword, m_currentWirelessDevice, answers>>
history == <<said, timedOut, deleted>>
vars == <<agentVars, panelVars, history>>

Ids == (Devices \cup {NoIface}) \X Conns
IdOf(c) == <<IfaceOf[c], c>>
Prompts == {"none", "panel", "dialog"}
Timers == {"off", "runs", "restarts"}
Request == [conn : Conns \cup {NoConn}, prompt : Prompts, at : Calls \cup {NoCall},
            canceled : BOOLEAN, exiting : BOOLEAN, timer : Timers]
NoRequest == [conn |-> NoConn, prompt |-> "none", at |-> NoCall,
              canceled |-> FALSE, exiting |-> FALSE, timer |-> "off"]
Answer == [id : Ids, word : {"password", "cancel"}, at : Calls]
Outcomes == {"none", "password", "stored", "empty", "UserCanceled", "InternalError", "InvalidConnection"}
Reply == [outcome : Outcomes, at : Calls \cup {NoCall}]
Replied(o) == [outcome |-> o, at |-> NoCall]

Innermost(n) == n \in suspended /\ \A k \in suspended : k <= n

\* The suspended calls whose agent still exists.
Waiting == suspended \ deleted

Init ==
    /\ arrived = 0
    /\ suspended = {}
    /\ request = [n \in Calls |-> NoRequest]
    /\ m_waitingRequests = [id \in Ids |-> NoCall]
    /\ keyring \in SUBSET AgentOwned
    /\ agent \in {"up", "none"}
    /\ waitingForPassword = [c \in Conns |-> NoCall]
    /\ m_currentWirelessDevice \in Devices
    /\ answers = <<>>
    /\ reply = [n \in Calls |-> Replied("none")]
    /\ said = [n \in Calls |-> "nothing"]
    /\ timedOut = {}
    /\ deleted = {}

-----------------------------------------------------------------------------
(* GetSecrets *)

\* The keyring was read and holds a secret of the profile.
Stored(c, in) == in.keyring = "ok" /\ c \in keyring

\* hintIsFind(): no hint at all counts as found.
HintFind(c, in) == in.hints = "none" \/ (in.hints = "stored" /\ Stored(c, in))

\* The keyring error that GetSecrets does not tolerate.
KeyringFails(in) == \/ in.keyring = "error"
                    \/ in.keyring = "absent" /\ "AllowInteraction" \notin in.flags

\* askForSecret() is reached with a secret map that is still empty.
MapEmpty(c, in) == "AllowInteraction" \in in.flags /\ ~Stored(c, in)

\* GetSecrets calls askForSecret, and that finds a security section.
Asks(c, in) == /\ in.form # "missing"
               /\ \/ MapEmpty(c, in)
                  \/ in.flags # {} /\ (~HintFind(c, in) \/ "RequestNew" \in in.flags)

\* A first request: all kinds but 802.1X return what is known without a prompt.
FirstRequest(c, in) == KindOf[c] # "eap" /\ "RequestNew" \notin in.flags

\* m_dbusInterface is invalid where the kind's function looks at it.
NoFrontend(c, in) == /\ ~in.valid
                     /\ KindOf[c] \in {"psk", "eap"} \/ ~FirstRequest(c, in)

\* Mutant: no look at m_waitingRequests.
NeverDuplicate(c) == c \notin Conns

\* A request of the same id waits already.
Duplicate(c) == m_waitingRequests[IdOf(c)] # NoCall

\* What GetSecrets answers without a prompt, or "prompt"; the order is that of the code's early returns.
Outcome(c, in) ==
    IF KeyringFails(in) THEN "InternalError"
    ELSE IF ~Asks(c, in) THEN IF Stored(c, in) THEN "stored" ELSE "empty"
    ELSE IF in.form = "broken" THEN "InvalidConnection"
    ELSE IF NoFrontend(c, in) THEN "UserCanceled"
    ELSE IF ~FirstRequest(c, in)
      THEN IF Duplicate(c) THEN "InternalError" ELSE "prompt"
    ELSE IF Stored(c, in) \/ in.inSettings THEN "stored"
    ELSE IF MapEmpty(c, in) THEN "UserCanceled" ELSE "empty"

(* save*Secret(), at the end of askForSecret: an agent-owned secret goes to *)
(* the keyring, and when that fails NetworkManager is answered an error     *)
(* instead of the secret.                                                   *)
Finish(n, c, answer) ==
    \/ /\ reply' = [reply EXCEPT ![n] = answer]
       /\ keyring' = IF answer.outcome \in {"password", "stored"}
                     THEN keyring \cup ({c} \cap AgentOwned) ELSE keyring
    \/ /\ answer.outcome \in {"password", "stored"} /\ c \in AgentOwned
       /\ reply' = [reply EXCEPT ![n] = Replied("InternalError")]
       /\ UNCHANGED keyring

\* GetSecrets that needs no prompt.
GetSecretsAtOnce(c, in) ==
    /\ agent = "up" /\ arrived < MaxCalls
    /\ Outcome(c, in) # "prompt"
    /\ arrived' = arrived + 1
    /\ request' = [request EXCEPT ![arrived + 1].conn = c]
    /\ IF Asks(c, in) THEN Finish(arrived + 1, c, Replied(Outcome(c, in)))
       ELSE /\ reply' = [reply EXCEPT ![arrived + 1] = Replied(Outcome(c, in))]
            /\ UNCHANGED keyring
    /\ UNCHANGED <<suspended, m_waitingRequests, agent, panelVars, history>>

\* Mutant: wait() starts no timer.
SuspendWithoutTimer(c, prompt) ==
    /\ arrived' = arrived + 1
    /\ suspended' = suspended \cup {arrived + 1}
    /\ m_waitingRequests' = [m_waitingRequests EXCEPT ![IdOf(c)] = arrived + 1]
    /\ request' = [request EXCEPT ![arrived + 1] = [NoRequest EXCEPT !.conn = c, !.prompt = prompt]]
    /\ UNCHANGED <<keyring, agent, reply, history>>

\* The request is entered in m_waitingRequests, sendPasswordError is called, and the handler is suspended.
Suspend(c, prompt) ==
    /\ arrived' = arrived + 1
    /\ suspended' = suspended \cup {arrived + 1}
    /\ m_waitingRequests' = [m_waitingRequests EXCEPT ![IdOf(c)] = arrived + 1]
    /\ request' = [request EXCEPT ![arrived + 1] =
                     [NoRequest EXCEPT !.conn = c, !.prompt = prompt, !.timer = "runs"]]
    /\ UNCHANGED <<keyring, agent, reply, history>>

(* KnmInterface::showPasswordError: the panel turns to the profile's       *)
(* device, if it names one, and its item shows the prompt of call n.       *)
ShowPasswordError(n, c) ==
    /\ waitingForPassword' = [waitingForPassword EXCEPT ![c] = n]
    /\ m_currentWirelessDevice' = IF IfaceOf[c] = NoIface THEN m_currentWirelessDevice ELSE IfaceOf[c]
    /\ UNCHANGED answers

\* askSecretForPassword, askSecretForWep: the panel is told, then request->wait().
GetSecretsPanel(c, in) ==
    /\ agent = "up" /\ arrived < MaxCalls
    /\ Outcome(c, in) = "prompt"
    /\ KindOf[c] \in {"psk", "wep"}
    /\ Suspend(c, "panel")
    /\ ShowPasswordError(arrived + 1, c)

\* askSecretForLeap, askSecretWithIdentityAndPassword, askSecretForTls: sendPasswordError itself runs the dialog.
GetSecretsDialog(c, in) ==
    /\ agent = "up" /\ arrived < MaxCalls
    /\ Outcome(c, in) = "prompt"
    /\ KindOf[c] \in {"leap", "eap"}
    /\ Suspend(c, "dialog")
    /\ UNCHANGED panelVars

\* What the request says once its loop is over.
Verdict(r) == [outcome |-> IF r.canceled THEN "UserCanceled" ELSE "password", at |-> r.at]

\* Mutant: one of the askSecretFor functions forgets to take the request out of m_waitingRequests.
ResumeWithoutRemove(n) ==
    /\ agent # "crashed"
    /\ Innermost(n) /\ n \notin deleted
    /\ request[n].exiting
    /\ suspended' = suspended \ {n}
    /\ request' = [request EXCEPT ![n].timer = "off"]
    /\ Finish(n, request[n].conn, Verdict(request[n]))
    /\ UNCHANGED <<arrived, m_waitingRequests, agent, panelVars, history>>

\* The rest of the handler, once its loop was told to quit and the loops inside it are gone.
Resume(n) ==
    /\ agent # "crashed"
    /\ Innermost(n) /\ n \notin deleted
    /\ request[n].exiting
    /\ suspended' = suspended \ {n}
    /\ m_waitingRequests' = [m_waitingRequests EXCEPT ![IdOf(request[n].conn)] = NoCall]
    /\ request' = [request EXCEPT ![n].timer = "off"]
    /\ Finish(n, request[n].conn, Verdict(request[n]))
    /\ UNCHANGED <<arrived, agent, panelVars, history>>

(* The same in an agent that was deleted meanwhile: the handler goes on in *)
(* freed memory.  It crashes, or returns with an answer or without one.    *)
ResumeDeleted(n) ==
    /\ agent # "crashed"
    /\ Innermost(n) /\ n \in deleted
    /\ request[n].exiting
    /\ suspended' = suspended \ {n}
    /\ request' = [request EXCEPT ![n].timer = "off"]
    /\ \/ agent' = "crashed" /\ UNCHANGED <<keyring, reply>>
       \/ UNCHANGED <<agent, keyring, reply>>
       \/ Finish(n, request[n].conn, Verdict(request[n])) /\ UNCHANGED agent
    /\ UNCHANGED <<arrived, m_waitingRequests, panelVars, history>>

-----------------------------------------------------------------------------
(* The answers *)

(* SecretWaitRequest::quit(), with the map that was typed at the prompt of *)
(* call at.  Only wait() makes a loop: a dialog's request has none to end. *)
Quit(r, word, at) ==
    [r EXCEPT !.at = IF word = "timeout" THEN NoCall ELSE at,
              !.canceled = word # "password",
              !.exiting = @ \/ r.prompt = "panel"]

\* onSubmitPassword, onCancelPassword: the request n the id was found to stand for, if any, is told the word.
Tells(n, word, at, requests) ==
    IF n = NoCall THEN /\ request' = requests
                       /\ UNCHANGED <<said, timedOut>>
    ELSE /\ request' = [requests EXCEPT ![n] = Quit(@, word, at)]
         /\ said' = IF word = "timeout" THEN said ELSE [said EXCEPT ![n] = word]
         /\ timedOut' = IF word = "timeout" THEN timedOut \cup {n} ELSE timedOut

\* Mutants: the answer ends every wait; it ends only the wait of the innermost loop.
PanelAnswerToAll ==
    /\ agent # "crashed" /\ answers # <<>>
    /\ answers' = Tail(answers)
    /\ LET n == m_waitingRequests[Head(answers).id]
           m == Head(answers)
       IN IF n = NoCall THEN UNCHANGED <<request, said>>
          ELSE /\ request' = [k \in Calls |-> IF k \in suspended THEN Quit(request[k], m.word, m.at) ELSE request[k]]
               /\ said' = [said EXCEPT ![n] = m.word]
    /\ UNCHANGED <<arrived, suspended, m_waitingRequests, keyring, agent, reply,
                   waitingForPassword, m_currentWirelessDevice, timedOut, deleted>>
PanelAnswerInnermost ==
    /\ agent # "crashed" /\ answers # <<>>
    /\ answers' = Tail(answers)
    /\ LET n == m_waitingRequests[Head(answers).id]
       IN Tells(IF n # NoCall /\ Innermost(n) THEN n ELSE NoCall, Head(answers).word, Head(answers).at, request)
    /\ UNCHANGED <<arrived, suspended, m_waitingRequests, keyring, agent, reply,
                   waitingForPassword, m_currentWirelessDevice, deleted>>

\* A message of the panel; while the screen is locked there is no agent, and m_waitingRequests has no entry.
PanelAnswer ==
    /\ agent # "crashed" /\ answers # <<>>
    /\ answers' = Tail(answers)
    /\ Tells(m_waitingRequests[Head(answers).id], Head(answers).word, Head(answers).at, request)
    /\ UNCHANGED <<arrived, suspended, m_waitingRequests, keyring, agent, reply,
                   waitingForPassword, m_currentWirelessDevice, deleted>>

\* A dialog that is still open; the user can reach the innermost one.
Open(n) == n \in suspended /\ request[n].prompt = "dialog" /\ ~request[n].exiting
Front(n) == Open(n) /\ \A k \in suspended : k > n => request[k].prompt # "dialog"

\* closeEvent() stops the timer, and exec() will return.
Closed(n) == [request EXCEPT ![n].exiting = TRUE, ![n].timer = "off"]

\* Mutant: closing the dialog leaves its timer running.
DialogAnswerKeepsTimer(n, word) ==
    /\ agent # "crashed" /\ Front(n)
    /\ IF agent = "none" /\ word = "password"
       THEN agent' = "crashed" /\ UNCHANGED <<request, said, timedOut>>
       ELSE /\ Tells(m_waitingRequests[IdOf(request[n].conn)], word, n, [request EXCEPT ![n].exiting = TRUE])
            /\ UNCHANGED agent
    /\ UNCHANGED <<arrived, suspended, m_waitingRequests, keyring, reply, panelVars, deleted>>

(* JoinHiddenWiFiPage: Connect submits and closes, anything else closes    *)
(* and cancels; the request is looked up by the id the dialog was given.   *)
(* handleEnterpriseWifiReconnection tests secretAgent() for null when it   *)
(* cancels, not when it submits.  (The click that closes the dialog starts *)
(* its timer again, which then closes it again and repeats a cancel.)      *)
DialogAnswer(n, word) ==
    /\ agent # "crashed" /\ Front(n)
    /\ IF agent = "none" /\ word = "password"
       THEN agent' = "crashed" /\ UNCHANGED <<request, said, timedOut>>
       ELSE Tells(m_waitingRequests[IdOf(request[n].conn)], word, n, Closed(n)) /\ UNCHANGED agent
    /\ UNCHANGED <<arrived, suspended, m_waitingRequests, keyring, reply, panelVars, deleted>>

\* resetTimeout(): as long as the user goes on editing, the dialog's 120 s do not run out.
DialogEdited(n) ==
    /\ agent # "crashed" /\ Front(n)
    /\ request' = [request EXCEPT ![n].timer = IF @ = "runs" THEN "restarts" ELSE "runs"]
    /\ UNCHANGED <<arrived, suspended, m_waitingRequests, keyring, agent, reply, panelVars, history>>

(* The 120 s of wait(), which run until wait() returns and end its own     *)
(* request, and those of the dialog, which close it and cancel by its id.  *)
TimerFires(n) ==
    /\ agent # "crashed" /\ n \in suspended
    /\ request[n].timer = "runs"
    /\ IF request[n].prompt = "panel"
       THEN Tells(n, "timeout", n, [request EXCEPT ![n].timer = "off"])
       ELSE Tells(m_waitingRequests[IdOf(request[n].conn)], "timeout", n, Closed(n))
    /\ UNCHANGED <<arrived, suspended, m_waitingRequests, keyring, agent, reply, panelVars, deleted>>

-----------------------------------------------------------------------------
(* The screen lock *)

\* keyRingClear(): the agent is deleted, whatever handlers of it are suspended.
KeyRingClear ==
    /\ agent = "up"
    /\ agent' = "none"
    /\ deleted' = deleted \cup suspended
    /\ m_waitingRequests' = [id \in Ids |-> NoCall]
    /\ UNCHANGED <<arrived, suspended, request, keyring, reply, panelVars, said, timedOut>>

\* keyRingInit(): a new agent.
KeyRingInit ==
    /\ agent = "none"
    /\ agent' = "up"
    /\ UNCHANGED <<arrived, suspended, request, m_waitingRequests, keyring, reply, panelVars, history>>

-----------------------------------------------------------------------------
(* SaveSecrets and DeleteSecrets *)

SaveSecrets(c) ==
    /\ agent = "up"
    /\ keyring' \in {keyring \ {c}, (keyring \ {c}) \cup ({c} \cap AgentOwned)}
    /\ UNCHANGED <<arrived, suspended, request, m_waitingRequests, agent, reply, panelVars, history>>

DeleteSecrets(c) ==
    /\ agent = "up"
    /\ keyring' = keyring \ {c}
    /\ UNCHANGED <<arrived, suspended, request, m_waitingRequests, agent, reply, panelVars, history>>

-----------------------------------------------------------------------------
(* The panel *)

\* The user answers the item of c: one answer for each prompt, sent under the id of the device on show.
PanelSends(c, word) ==
    /\ waitingForPassword[c] # NoCall
    /\ IfaceOf[c] \in {NoIface, m_currentWirelessDevice}
    /\ answers' = Append(answers, [id |-> <<m_currentWirelessDevice, c>>, word |-> word, at |-> waitingForPassword[c]])
    /\ waitingForPassword' = [waitingForPassword EXCEPT ![c] = NoCall]
    /\ UNCHANGED <<agentVars, m_currentWirelessDevice, history>>

PanelSelects(d) ==
    /\ d # m_currentWirelessDevice
    /\ m_currentWirelessDevice' = d
    /\ UNCHANGED <<agentVars, waitingForPassword, answers, history>>

-----------------------------------------------------------------------------
GetSecrets(c, in) == GetSecretsAtOnce(c, in) \/ GetSecretsPanel(c, in) \/ GetSecretsDialog(c, in)

User == \/ \E n \in Calls, word \in {"password", "cancel"} : DialogAnswer(n, word)
        \/ \E n \in Calls : DialogEdited(n)
        \/ \E c \in Conns, word \in {"password", "cancel"} : PanelSends(c, word)
        \/ \E d \in Devices : PanelSelects(d)

Next ==
    \/ \E c \in Conns, in \in Inputs : GetSecrets(c, in)
    \/ \E c \in Conns : SaveSecrets(c) \/ DeleteSecrets(c)
    \/ \E n \in Calls : Resume(n) \/ ResumeDeleted(n) \/ TimerFires(n)
    \/ PanelAnswer
    \/ KeyRingClear \/ KeyRingInit
    \/ User

Spec == Init /\ [][Next]_vars

(* The event loop resumes a handler whose loop is over, and a timer that   *)
(* is not started again fires; the user need never do anything.            *)
Fairness == \A n \in Calls : WF_vars(Resume(n)) /\ WF_vars(ResumeDeleted(n)) /\ WF_vars(TimerFires(n))

FairSpec == Spec /\ Fairness

-----------------------------------------------------------------------------
(* Properties *)

TypeOK ==
    /\ arrived \in 0 .. MaxCalls
    /\ suspended \subseteq 1 .. arrived
    /\ request \in [Calls -> Request]
    /\ m_waitingRequests \in [Ids -> Calls \cup {NoCall}]
    /\ keyring \subseteq Conns
    /\ agent \in {"up", "none", "crashed"}
    /\ waitingForPassword \in [Conns -> Calls \cup {NoCall}]
    /\ m_currentWirelessDevice \in Devices
    /\ answers \in Seq(Answer)
    /\ reply \in [Calls -> Reply]
    /\ said \in [Calls -> {"nothing", "password", "cancel"}]
    /\ timedOut \subseteq Calls
    /\ deleted \subseteq Calls

(* m_waitingRequests holds exactly the suspended calls of the agent there  *)
(* is, each under the id of its own profile: no call is lost to the        *)
(* answers of the user, and no entry is left behind that would refuse      *)
(* every later call of its profile.                                        *)
WaitingIsSuspended ==
    /\ \A n \in Waiting : m_waitingRequests[IdOf(request[n].conn)] = n
    /\ \A id \in Ids : m_waitingRequests[id] # NoCall =>
         /\ m_waitingRequests[id] \in Waiting
         /\ IdOf(request[m_waitingRequests[id]].conn) = id

(* The word given at the prompt of call k answers call n: k is n itself,   *)
(* or an earlier call of the same profile that the word came too late for: *)
(* one that is over without it, or whose agent was deleted.                *)
Missed(k) == reply[k].outcome # "none" /\ reply[k].at # k
Own(n, k) ==
    /\ k \in Calls /\ request[k].conn = request[n].conn
    /\ k # n => k < n /\ (Missed(k) \/ k \in deleted)

(* However the handlers nest and whenever the messages arrive, a password  *)
(* NetworkManager is given was typed at the prompt of that very call, or   *)
(* came too late for an earlier call of the same profile.                  *)
OwnPassword ==
    \A n \in Calls \ deleted : reply[n].outcome = "password" => Own(n, reply[n].at)

(* A call that did prompt is answered UserCanceled only when its own 120 s *)
(* ran out or its prompt was cancelled: its own, or as above that of an    *)
(* earlier call.                                                           *)
PromptCanceledByUser ==
    \A n \in Calls \ deleted : reply[n].outcome = "UserCanceled" /\ request[n].prompt # "none" =>
        n \in timedOut \/ Own(n, reply[n].at)

(* Credentials submitted in a dialog are final: whatever else the nested   *)
(* loops let happen before the handler resumes, NetworkManager gets them,  *)
(* unless the keyring refuses to store an agent-owned one, or the screen   *)
(* was locked under a prompt of that profile.                              *)
Unlocked(n) == \A k \in deleted : request[k].conn # request[n].conn
DialogDelivered ==
    \A n \in Calls :
        request[n].prompt = "dialog" /\ said[n] = "password" /\ reply[n].outcome # "none" /\ Unlocked(n) =>
            \/ reply[n].outcome = "password"
            \/ reply[n].outcome = "InternalError" /\ request[n].conn \in AgentOwned

(* What the proofs add to make these inductive: a call not yet dispatched  *)
(* holds nothing; a suspended call has a prompt and no reply; a            *)
(* call that is not suspended any more has a reply, under the word its     *)
(* request was told, unless its agent was deleted.                         *)
Arrivals ==
    \A n \in Calls :
        /\ n <= arrived => request[n].conn \in Conns
        /\ n > arrived => /\ request[n] = NoRequest
                          /\ reply[n] = Replied("none")
                          /\ said[n] = "nothing"
                          /\ n \notin timedOut /\ n \notin deleted

OpenPrompts ==
    \A n \in suspended :
        /\ request[n].conn \in Conns
        /\ request[n].prompt # "none"
        /\ reply[n].outcome = "none"

Over ==
    \A n \in 1 .. arrived : n \notin suspended =>
        \/ n \in deleted
        \/ reply[n].outcome # "none" /\ reply[n].at \in {NoCall, request[n].at}

\* Of the calls that prompted for a profile, the one that waits is the last.
LastPrompt ==
    \A n \in Waiting, k \in Calls :
        request[k].conn = request[n].conn /\ request[k].prompt # "none" => k <= n

\* A loop that is over was ended by the word of its own user or by its timer.
Verdicts ==
    \A n \in Calls \ deleted : request[n].exiting =>
        \/ request[n].canceled /\ n \in timedOut
        \/ Own(n, request[n].at)

(* Each prompt of the panel is answered once: it is on show, or in one     *)
(* message, and its call has not been told yet what was typed at it.       *)
PanelKinds == {"psk", "wep"}
Unanswered(k, c) ==
    /\ k \in 1 .. arrived
    /\ request[k].conn = c /\ KindOf[c] \in PanelKinds
    /\ request[k].prompt = "panel" /\ request[k].at # k
AnsweredOnce ==
    /\ \A c \in Conns : waitingForPassword[c] # NoCall =>
         /\ Unanswered(waitingForPassword[c], c)
         /\ \A i \in DOMAIN answers : answers[i].at # waitingForPassword[c]
    /\ \A i \in DOMAIN answers :
         /\ Unanswered(answers[i].at, answers[i].id[2])
         /\ \A j \in DOMAIN answers : j # i => answers[j].at # answers[i].at

\* A dialog that has closed keeps its verdict.
DialogsFinal ==
    \A n \in Calls : request[n].prompt = "dialog" =>
        /\ KindOf[request[n].conn] \notin PanelKinds
        /\ request[n].exiting => request[n].timer = "off"
        /\ said[n] = "password" /\ Unlocked(n) => request[n].exiting /\ ~request[n].canceled

PromptsInv == Arrivals /\ OpenPrompts /\ Over /\ LastPrompt /\ Verdicts /\ AnsweredOnce /\ DialogsFinal

(* A message of the panel that arrives while its profile's prompt is open  *)
(* ends that prompt's wait.                                                *)
AnswerReaches ==
    [][\A n \in Waiting :
          /\ answers # <<>> /\ answers' = Tail(answers)
          /\ request[n].prompt = "panel"
          /\ Head(answers).id[2] = request[n].conn
          => request'[n].exiting]_vars

(* The user's last word counts: a password submitted at a prompt and not   *)
(* taken back is what NetworkManager gets.                                 *)
SubmittedIsDelivered ==
    \A n \in Calls \ deleted : said[n] = "password" /\ reply[n].outcome # "none" =>
        reply[n].outcome = "password"

(* Every call is answered, even by a user who never touches a prompt,      *)
(* unless the screen is locked under its handler or the process crashes;   *)
(* a user who never stops editing a dialog can hold the handlers for ever. *)
EditingEnds == \A n \in Calls : <>[](request[n].timer # "restarts")
EveryCallAnswered ==
    EditingEnds =>
        \A n \in Calls : arrived >= n ~> reply[n].outcome # "none" \/ n \in deleted \/ agent = "crashed"
=============================================================================
