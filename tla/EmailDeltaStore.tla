-------------------------- MODULE EmailDeltaStore ---------------------------
(* email-inbound-delta-state-store.js: the current delta-state row of one    *)
(* mailbox, its lease, and the transactions that change them.  Every         *)
(* transaction locks the row (FOR UPDATE) or changes it with one conditional *)
(* UPDATE, so each is one action of the module that extends this one.        *)
(*                                                                           *)
(* state_version grows with every write and is only ever compared for        *)
(* equality with the value somebody read, so the model keeps who holds the   *)
(* row's present version instead of the number.  A lease token is fresh for  *)
(* each acquire and a worker runs one page at a time, so the holder's name   *)
(* stands for the token; "live" is lease_until > clock_timestamp().          *)
EXTENDS Naturals, FiniteSets

CONSTANTS
  Workers,               \* API processes that run the inbound worker
  Staff,                 \* the operator, who restarts a generation
  Nobody,
  Last                   \* number of the last message of the mailbox

ASSUME ActorAssumption == Staff \notin Workers /\ Nobody \notin Workers

VARIABLES
  row,                   \* the current row of tenant_email_inbound_delta_states
  current,               \* who read or wrote the row's present state_version
  stored                 \* tenant_email_inbound_events

store == <<row, current, stored>>

Phases == {"absent", "initial", "tracking", "reset_required"}
Kinds == {"none", "nextLink", "deltaLink"}
Cursors == [kind : Kinds, upTo : 0..Last]
NoCursor == [kind |-> "none", upTo |-> 0]

Rows == [gen : Nat, phase : Phases, cursor : Cursors,
         holder : Workers \cup {Nobody}, live : BOOLEAN]

StoreInit ==
  /\ row = [gen |-> 0, phase |-> "absent", cursor |-> NoCursor,
            holder |-> Nobody, live |-> FALSE]
  /\ current = {}
  /\ stored = {}

(* The fence of every write: generation and state_version are those read.    *)
Fenced(a, g) == row.gen = g /\ a \in current

LeaseIsLive == row.holder # Nobody /\ row.live

(* Mutant: a lease that ran out still commits, on the generation alone.      *)
MayCommitLate(w, g) == row.gen = g /\ row.phase \in {"initial", "tracking"}

MayCommit(w, g) ==
  /\ Fenced(w, g)
  /\ row.holder = w /\ row.live
  /\ row.phase \in {"initial", "tracking"}

(* SQL_INSERT_INITIAL                                                        *)
InsertInitial(w) ==
  /\ row' = [row EXCEPT !.gen = 1, !.phase = "initial"]
  /\ current' = {w}
  /\ UNCHANGED stored

(* Mutant: a lease that ran out is not taken over.                           *)
MayLeaseFree(w, g) ==
  /\ Fenced(w, g)
  /\ row.phase \in {"initial", "tracking"}
  /\ row.holder = Nobody

MayLease(w, g) ==
  /\ Fenced(w, g)
  /\ row.phase \in {"initial", "tracking"}
  /\ ~LeaseIsLive

TakeLease(w) ==
  /\ row' = [row EXCEPT !.holder = w, !.live = TRUE]
  /\ current' = {w}
  /\ UNCHANGED stored

(* SQL_CAS_LEASE_RELEASE has no expiry check.                                *)
MayRelease(w, g) == Fenced(w, g) /\ row.holder = w

DropLease(w) ==
  /\ row' = [row EXCEPT !.holder = Nobody, !.live = FALSE]
  /\ current' = {w}
  /\ UNCHANGED stored

(* The lock and the lease the first transaction of openCursor asks for, and  *)
(* the second asks for again after the cursor was decrypted.                 *)
MayOpen(w, g) == Fenced(w, g) /\ row.holder = w /\ row.live

(* Mutant: a page with a message that is already kept is not inserted.       *)
InstallNewPage(w, page) ==
  /\ row' = [row EXCEPT !.cursor = [kind |-> page.kind, upTo |-> page.upTo],
                        !.phase = IF page.kind = "deltaLink" THEN "tracking" ELSE @]
  /\ current' = {w}
  /\ stored' = IF stored \cap (page.from + 1)..page.upTo = {}
                  THEN stored \cup (page.from + 1)..page.upTo
                  ELSE stored

(* Events ON CONFLICT DO NOTHING, then the cursor, in one transaction.       *)
InstallPage(w, page) ==
  /\ row' = [row EXCEPT !.cursor = [kind |-> page.kind, upTo |-> page.upTo],
                        !.phase = IF page.kind = "deltaLink" THEN "tracking" ELSE @]
  /\ current' = {w}
  /\ stored' = stored \cup (page.from + 1)..page.upTo

(* SQL_CAS_RESET_REQUIRED: the cursor stays, the lease goes.                 *)
InstallReset(w) ==
  /\ row' = [row EXCEPT !.phase = "reset_required", !.holder = Nobody, !.live = FALSE]
  /\ current' = {w}
  /\ UNCHANGED stored

(* demoteAndInsertNextGeneration: no cursor is copied to the new generation. *)
InsertNextGeneration ==
  /\ row' = [gen |-> row.gen + 1, phase |-> "initial", cursor |-> NoCursor,
             holder |-> Nobody, live |-> FALSE]
  /\ current' = {}
  /\ UNCHANGED stored
=============================================================================
