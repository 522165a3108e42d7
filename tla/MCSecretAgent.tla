---------------------------- MODULE MCSecretAgent ----------------------------
(* Small instances of SecretAgent for TLC. *)
EXTENDS SecretAgent, TLC

CONSTANTS c1, c2, c3, c4, d1, d2

\* A profile of each kind, over two devices.
BoundIface == (c1 :> d1) @@ (c2 :> d2) @@ (c3 :> d1) @@ (c4 :> d2)
EveryKind == (c1 :> "psk") @@ (c2 :> "wep") @@ (c3 :> "eap") @@ (c4 :> "leap")

\* Two devices, one pre-shared key on each.
BoundTwo == (c1 :> d1) @@ (c2 :> d2)
PskKinds == (c1 :> "psk") @@ (c2 :> "psk")

Plain == [flags |-> {"AllowInteraction"}, hints |-> "none", keyring |-> "ok",
          inSettings |-> FALSE, form |-> "sound", valid |-> TRUE]
Retry == [Plain EXCEPT !.flags = {"AllowInteraction", "RequestNew"}]

\* NetworkManager asks again after a wrong password.
RetryInputs == {Retry}
\* ... and asks in every form: what is stored where for a sound profile, and every profile for a readable keyring.
StoredForms == {in \in AllInputs : in.form = "sound" /\ in.valid /\ ~in.inSettings}
ProfileForms == {in \in AllInputs : in.keyring = "ok" /\ in.hints = "none"}
EveryInput == StoredForms \cup ProfileForms
=============================================================================
