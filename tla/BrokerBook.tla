------------------------------ MODULE BrokerBook ------------------------------
(***************************************************************************)
(* What hbbs promises about relay grants.  It keeps a book of the requests *)
(* it has accepted.  A request may be open to an answer; it is granted at  *)
(* most once, for the machine that was asked, and closes every older       *)
(* request of its controller.  It promises no more: a request may lapse    *)
(* without a grant.                                                        *)
(***************************************************************************)
EXTENDS Naturals, Sequences

CONSTANTS Controllers, Targets, Provisioned

VARIABLES book,    \* the accepted requests
          open,    \* for each controller, the requests that may be granted
          issued   \* the grants

bookVars == <<book, open, issued>>

BookInit == book = <<>> /\ open = [c \in Controllers |-> {}] /\ issued = {}

\* Not every request is opened: a target may be asked for its local addresses only.
Enter(c, t) ==
  /\ book' = Append(book, [ctrl |-> c, target |-> t])
  /\ open' \in {open, [open EXCEPT ![c] = @ \cup {Len(book) + 1}]}
  /\ UNCHANGED issued

Lapse(lapsed) ==
  /\ open' = [c \in Controllers |-> {r \in open[c] : <<c, r>> \notin lapsed}]
  /\ UNCHANGED <<book, issued>>

\* A machine that has proved its key is granted what was asked of it only.
Issue(c, t, r) ==
  /\ r \in open[c] /\ (t \in Provisioned => book[r].target = t)
  /\ issued' = issued \cup {[ctrl |-> c, target |-> book[r].target, by |-> t, req |-> r]}
  /\ open' = [open EXCEPT ![c] = {i \in @ : i > r}]
  /\ UNCHANGED book

BookNext ==
  \/ \E c \in Controllers, t \in Targets : Enter(c, t) \/ \E r \in open[c] : Issue(c, t, r)
  \/ \E lapsed \in SUBSET (Controllers \X (1..Len(book))) : Lapse(lapsed)

BookSpec == BookInit /\ [][BookNext]_bookVars

-----------------------------------------------------------------------------
(* Properties.                                                             *)

\* What is open was asked by its controller, and after all that was granted to it.
OpenIsLater ==
  /\ \A g \in issued : g.req \in 1..Len(book)
  /\ \A c \in Controllers : \A r \in open[c] :
       /\ r \in 1..Len(book) /\ book[r].ctrl = c
       /\ \A g \in issued : g.ctrl = c => g.req < r

\* A controller is granted its requests in the order it made them, each once: no answer
\* revives a request that a later one has overtaken.
InOrder == \A g \in issued' \ issued, h \in issued : h.ctrl = g.ctrl => h.req < g.req

IssuedInOrder == [][InOrder]_bookVars
=============================================================================
