---------------------------- MODULE MCAgentReads ----------------------------
(* Small instances of AgentReads for TLC.                                  *)
EXTENDS AgentReads

CONSTANTS web, c1, s1

MCNames == {web}
MCWeb == {[name |-> web, tags |-> {}]}
MCWebAndList == MCWeb \cup {[name |-> NoName, tags |-> {}]}
MCTwoOfWeb == MCWeb \cup {[name |-> web, tags |-> {1}]}
MCClients == {c1}
MCStreams == {s1}
MCNone == {}
MCBothModes == {"default", "consistent"}
MCDefaultMode == {"default"}

MCAnswers == {<<0, 0>>, <<1, 0>>, <<2, 0>>}
MCTwoAnswers == {<<0, 0>>, <<1, 0>>}
=============================================================================
