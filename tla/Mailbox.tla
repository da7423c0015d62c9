-------------------------------- MODULE Mailbox --------------------------------
(***************************************************************************)
(* What the page of messages promises of the user's mailbox, without rows, *)
(* tabs and answers: operations are asked for one after the other, each    *)
(* for messages in a folder it is meant for, and is then carried out once, *)
(* on the messages it was asked for, or never.  The star is for messages   *)
(* outside the trash, and a message leaves the trash for good or for the   *)
(* inbox.  Once the user's clicks have overtaken the page, an operation    *)
(* may find its messages in any folder, and several may wait.              *)
(***************************************************************************)
CONSTANTS Messages, Slots, None

VARIABLES
  folder,    \* folder[m]: where m is; "starred" is in the inbox, with a star
  asked,     \* asked[i]: an operation asked for and not carried out, or None
  overtaken  \* clicks have overtaken the page

vars == <<folder, asked, overtaken>>

Kept == {"default", "starred"}

\* Where the messages of an operation are, and where it puts them.
From == [star |-> Kept, unstar |-> Kept, trash |-> Kept, inbox |-> {"trash"},
         delete |-> {"trash"}]
To == [star |-> "starred", unstar |-> "default", trash |-> "trash", inbox |-> "default",
       delete |-> "deleted"]

Operations == [op : DOMAIN From, msgs : SUBSET Messages]

Init ==
  /\ folder \in [Messages -> Kept \union {"trash"}]
  /\ asked = [i \in Slots |-> None]
  /\ overtaken = FALSE

Ask(i) ==
  /\ asked[i] = None
  /\ asked'[i] \in Operations
  /\ \A j \in Slots \ {i} : asked'[j] = asked[j]
  /\ overtaken' \in {overtaken, TRUE}
  /\ overtaken' \/ /\ \A j \in Slots : asked[j] = None
                   /\ \A m \in asked'[i].msgs : folder[m] \in From[asked'[i].op]
  /\ UNCHANGED folder

CarryOut(i) ==
  /\ asked[i] # None
  /\ asked' = [asked EXCEPT ![i] = None]
  /\ folder' = [m \in Messages |-> IF m \in asked[i].msgs THEN To[asked[i].op] ELSE folder[m]]
  /\ UNCHANGED overtaken

Refuse(i) ==
  /\ asked[i] # None
  /\ asked' = [asked EXCEPT ![i] = None]
  /\ UNCHANGED <<folder, overtaken>>

Overtake == overtaken' = TRUE /\ UNCHANGED <<folder, asked>>

Next ==
  \/ \E i \in Slots : Ask(i) \/ CarryOut(i) \/ Refuse(i)
  \/ Overtake

Spec == Init /\ [][Next]_vars
=============================================================================
