----------------------- MODULE MCWirelessNetResource -----------------------
(* Instances of WirelessNetResource for TLC.                               *)
EXTENDS WirelessNetResource, TLC

CONSTANTS n1, s1, gbk, decoded

\* The network gbk has a name that is not UTF-8.
Texts == [s \in Ssid |-> IF s = gbk THEN decoded ELSE s]

\* What has been disturbed stays so, and ConfiguredTruly is not about it.
Undisturbed == ~disturbed

NoSettings  == {}
\* Any network, on any interface or on n1.
AllSettings == [ssid : Ssid, iface : {AnyName}] \cup [ssid : {s1}, iface : {n1}]

FirstConn   == [a \in Active |-> CHOOSE c \in Conn : TRUE]
FirstDevice == [a \in Active |-> CHOOSE d \in Device : TRUE]

=============================================================================
