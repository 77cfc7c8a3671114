---------------------------- MODULE MCMessagesSync -----------------------------
(***************************************************************************)
(* Two threads and a budget of one message, so that every fetch that can   *)
(* be cut is cut.  In the first thread a person writes from two addresses, *)
(* a and b, over three months; one chat is cut a month before the other,   *)
(* in a month with more messages, and one message of it comes late.  The   *)
(* message of the second thread, c, is sent while runs go on.              *)
(***************************************************************************)
EXTENDS MessagesSync, TLC

CONSTANTS a, b, c

MCMessages == {1, 2, 4, 5, 6, 8}
MCBacklog == {1, 4, 5, 8}
MCChatOf == 1 :> a @@ 4 :> a @@ 5 :> a @@ 2 :> b @@ 8 :> b @@ 6 :> c
MCChatsOf == 1 :> {a, b} @@ 2 :> {c}
MCDate == [m \in MCMessages |-> m]

\* The index, and the last note of the first thread.
MCEditable == {IndexPath, <<1, 2>>}
================================================================================
