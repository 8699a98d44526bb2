--------------------------- MODULE DmabufFeedback ---------------------------
(***************************************************************************)
(* linux-dmabuf feedback (forward-client.c, forward.c).  The compositor    *)
(* describes what it can import in several events closed by "done"; the    *)
(* description in progress and the last complete one are kept apart, and   *)
(* the complete one is repeated to every feedback object of the programs,  *)
(* when it changes and when an object is made.  Each of the two owns a     *)
(* descriptor of the format table.                                         *)
(***************************************************************************)
EXTENDS Naturals, Sequences

CONSTANTS
  Nums,         \* descriptor numbers
  Tables,       \* format table files
  Devices,      \* dev_t values
  Formats,      \* index lists into a table
  Instances,    \* feedback objects of programs
  MaxTranches,  \* bound: tranches of one description
  NoFd

ASSUME FeedbackAssumption ==
  /\ MaxTranches \in Nat \ {0} /\ NoFd \notin Nums
  \* a first description exists, in two descriptors
  /\ Nums # {} /\ \A n \in Nums : Nums # {n}
  /\ Tables # {} /\ Devices # {} /\ Formats # {}

VARIABLES
  opened,       \* open descriptors: the table each refers to
  building,     \* forward->pending
  tranche,      \* forward->pending_tranche, as the events so far fill it
  current,      \* forward->current
  listed,       \* forward->feedback_instances
  received,     \* per instance, what was last sent to it
  said,         \* history: what the compositor is describing
  announced     \* history: what it last completed

feedbackVars == <<opened, building, tranche, current, listed, received, said, announced>>

NoTranche == <<>>
Unused == Nums \ DOMAIN opened

Opened(n, t) == [m \in DOMAIN opened \cup {n} |-> IF m = n THEN t ELSE opened[m]]
Closed(f, n) == [m \in DOMAIN f \ {n} |-> f[m]]

\* send_dmabuf_feedback_data: the device, the table and the tranches.
Contents(state, fds) ==
  [device |-> state.device, table |-> fds[state.fd], tranches |-> state.tranches]

\* dmabuf_feedback_format_table
FormatTable(t) ==
  \E n \in Unused :
    /\ opened' = Closed(Opened(n, t), building.fd)
    /\ building' = [building EXCEPT !.fd = n]
    /\ said' = [said EXCEPT !.table = t]
    /\ UNCHANGED <<tranche, current, listed, received, announced>>

\* dmabuf_feedback_main_device
MainDevice(d) ==
  /\ building' = [building EXCEPT !.device = d]
  /\ said' = [said EXCEPT !.device = d]
  /\ UNCHANGED <<opened, tranche, current, listed, received, announced>>

\* dmabuf_feedback_tranche_target_device, _flags and _formats, which the
\* compositor sends for each tranche
Tranche(d, f) ==
  /\ tranche = NoTranche /\ Len(building.tranches) < MaxTranches
  /\ tranche' = <<d, f>>
  /\ UNCHANGED <<opened, building, current, listed, received, said, announced>>

\* dmabuf_feedback_tranche_done
TrancheDone ==
  /\ tranche # NoTranche
  /\ building' = [building EXCEPT !.tranches = Append(@, tranche)]
  /\ said' = [said EXCEPT !.tranches = Append(@, tranche)]
  /\ tranche' = NoTranche
  /\ UNCHANGED <<opened, current, listed, received, announced>>

\* A mutant: the two descriptions share a descriptor.
KeepTableShared ==
  /\ opened' = Closed(opened, current.fd)
  /\ building' = [building EXCEPT !.tranches = <<>>]

\* The old table is closed; the device and a duplicate of the new one are kept
\* for the next description, which need not repeat them.
KeepTable ==
  \E n \in Unused :
    /\ opened' = Closed(Opened(n, opened[building.fd]), current.fd)
    /\ building' = [building EXCEPT !.fd = n, !.tranches = <<>>]

\* dmabuf_feedback_done
FeedbackDone ==
  /\ tranche = NoTranche /\ building.tranches # <<>>
  /\ KeepTable
  /\ current' = building
  /\ received' = [i \in Instances |->
       IF i \in listed THEN Contents(current', opened') ELSE NoFd]
  /\ announced' = said
  /\ said' = [said EXCEPT !.tranches = <<>>]
  /\ UNCHANGED <<tranche, listed>>

\* nested_linux_dmabuf_get_default_feedback, _get_surface_feedback
GetFeedback(i) ==
  /\ i \notin listed
  /\ listed' = listed \cup {i}
  /\ received' = [received EXCEPT ![i] = Contents(current, opened)]
  /\ UNCHANGED <<opened, building, tranche, current, said, announced>>

\* linux_dmabuf_feedback_handle_resource_destroy
DestroyFeedback(i) ==
  /\ i \in listed
  /\ listed' = listed \ {i}
  /\ received' = [received EXCEPT ![i] = NoFd]
  /\ UNCHANGED <<opened, building, tranche, current, said, announced>>

\* main's round trips: the first description, whichever it is, is complete
\* before a program runs.
FeedbackInit ==
  LET n == CHOOSE n \in Nums : TRUE
      m == CHOOSE m \in Nums : m # n
      t == CHOOSE t \in Tables : TRUE
      d == CHOOSE d \in Devices : TRUE
      f == CHOOSE f \in Formats : TRUE
  IN  /\ opened = [k \in {n, m} |-> t]
      /\ current = [device |-> d, fd |-> n, tranches |-> <<<<d, f>>>>]
      /\ building = [device |-> d, fd |-> m, tranches |-> <<>>]
      /\ tranche = NoTranche
      /\ listed = {}
      /\ announced = [device |-> d, table |-> t, tranches |-> <<<<d, f>>>>]
      /\ said = [announced EXCEPT !.tranches = <<>>]
      /\ received = [i \in Instances |-> NoFd]

FeedbackNext ==
  \/ \E t \in Tables : FormatTable(t)
  \/ \E d \in Devices : MainDevice(d) \/ \E f \in Formats : Tranche(d, f)
  \/ TrancheDone
  \/ FeedbackDone
  \/ \E i \in Instances : GetFeedback(i) \/ DestroyFeedback(i)

FeedbackSpec == FeedbackInit /\ [][FeedbackNext]_feedbackVars

-----------------------------------------------------------------------------
\* Exactly two descriptors are open, one for each description: the table a
\* program is sent is never closed under it, and none is leaked.
TwoTables ==
  /\ DOMAIN opened = {current.fd, building.fd}
  /\ current.fd # building.fd

\* Every feedback object has been told what the compositor last announced, in
\* full and nothing of a description under way, whenever it was made and
\* however many announcements came; and no descriptor is leaked or closed twice.
FeedbackInv ==
  /\ TwoTables
  /\ Contents(current, opened) = announced
  /\ \A i \in listed : received[i] = announced

=============================================================================
