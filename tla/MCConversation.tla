--------------------------- MODULE MCConversation ---------------------------
(* The users of each channel, for TLC: all of them; and a bound: the server  *)
(* is stopped only in runs without API calls and failures of the store.      *)
EXTENDS Conversation

MCSubscribers == [c \in Channels |-> Users]

StopAlone == stop = "no" \/ (calls = 0 /\ errors = 0)
====
