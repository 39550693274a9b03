------------------------- MODULE CredentialsChecker -------------------------
(***************************************************************************)
(* ProcessCheckerMachine (kernel.rs): it goes through the process array    *)
(* and through the footers of each process, has the checking policy check  *)
(* the credentials in them one at a time, and approves or fails processes. *)
(* A check is answered later, by a callback; next() runs without           *)
(* interruption, and an action here is one turn of its loop.               *)
(***************************************************************************)
EXTENDS Integers, Sequences

CONSTANTS
  Length,     \* of the process array
  NoProcess,  \* an empty slot of it
  Layouts,    \* what a slot may hold: NoProcess, or the footers of a process
  Kinds       \* of footers: what becomes of a footer when it is looked at

\* bad: it does not parse.  unsupported: the policy does not check this kind.
\* busy: the policy cannot start a check.  The others are checked, with the
\* result they are named for; pass stands also for a check that fails.
Checked == {"accept", "reject", "pass"}

ASSUME CheckerAssumption ==
  /\ Length \in Nat
  /\ Kinds \subseteq Checked \cup {"bad", "unsupported", "busy"}
  /\ Layouts \subseteq Seq(Kinds) \cup {NoProcess}
  /\ NoProcess \notin Seq(Kinds)

Positions == 0 .. Length - 1

VARIABLES
  footers,   \* [Positions -> Layouts] the binaries in flash
  require,   \* require_credentials() of the policy
  process, footer,           \* the machine's indices
  verdict,   \* [Positions -> ...] the processes' states
  machine    \* where the machine is: in next(), waiting for a check, finished
             \* or given up

checkervars == <<footers, require, process, footer, verdict, machine>>

CheckerInit ==
  /\ footers \in [Positions -> Layouts] /\ require \in BOOLEAN
  /\ process = 0 /\ footer = 0
  /\ verdict = [s \in Positions |-> "CredentialsUnchecked"]
  /\ machine = "next"

-----------------------------------------------------------------------------
\* check_footer: it parses the footers up to the one asked for.
check_footer(fs, f) ==
  IF \E k \in 1 .. Len(fs) : k <= f + 1 /\ fs[k] = "bad" THEN "BadFooter"
  ELSE IF f >= Len(fs) THEN "PastLastFooter"
  ELSE IF fs[f + 1] \in Checked THEN "Checking"
  ELSE IF fs[f + 1] = "busy" THEN "Error"
  ELSE "FooterNotCheckable"

\* next() finds no process in the slot, or no slot.
SkipSlot ==
  /\ machine = "next" /\ process < Length /\ footers[process] = NoProcess
  /\ process' = process + 1 /\ footer' = 0
  /\ UNCHANGED <<footers, require, verdict, machine>>

Finish ==
  /\ machine = "next" /\ process >= Length
  /\ machine' = "done"
  /\ UNCHANGED <<footers, require, process, footer, verdict>>

\* next() looks at a footer of a process.
Looks(result) ==
  /\ machine = "next" /\ process < Length /\ footers[process] # NoProcess
  /\ check_footer(footers[process], footer) = result
  /\ UNCHANGED <<footers, require>>

StartCheck == Looks("Checking") /\ machine' = "checking" /\ UNCHANGED <<process, footer, verdict>>

\* Mutant: approved where the policy requires credentials.
DefaultInverted(req) == IF req THEN "CredentialsApproved" ELSE "CredentialsFailed"

Default(req) == IF req THEN "CredentialsFailed" ELSE "CredentialsApproved"

\* No footer decided: the policy's default does.
ApplyDefault ==
  /\ Looks("PastLastFooter")
  /\ verdict' = [verdict EXCEPT ![process] = Default(require)]
  /\ process' = process + 1 /\ footer' = 0
  /\ UNCHANGED machine

SkipProcess ==
  /\ Looks("BadFooter")
  /\ process' = process + 1 /\ footer' = 0
  /\ UNCHANGED <<verdict, machine>>

\* Mutant: the footer stays the current one.
SkipNoFooter ==
  /\ Looks("FooterNotCheckable")
  /\ UNCHANGED <<process, footer, verdict, machine>>

SkipFooter ==
  /\ Looks("FooterNotCheckable")
  /\ footer' = footer + 1
  /\ UNCHANGED <<process, verdict, machine>>

GiveUp == Looks("Error") /\ machine' = "error" /\ UNCHANGED <<process, footer, verdict>>

Decide(v) ==
  /\ verdict' = [verdict EXCEPT ![process] = v]
  /\ process' = process + 1
  /\ UNCHANGED footer

\* check_done: the policy's callback, which goes on with next().
check_done ==
  /\ machine = "checking"
  /\ LET result == footers[process][footer + 1] IN
       \/ result = "accept" /\ Decide("CredentialsApproved")
       \/ result = "reject" /\ Decide("CredentialsFailed")
       \/ result = "pass" /\ footer' = footer + 1 /\ UNCHANGED <<process, verdict>>
  /\ machine' = "next"
  /\ UNCHANGED <<footers, require>>

CheckerNext ==
  \/ SkipSlot \/ Finish \/ StartCheck \/ ApplyDefault \/ SkipProcess \/ SkipFooter \/ GiveUp
  \/ check_done

\* next() does not stop in the middle, and a check that was started is answered.
CheckerSpec == CheckerInit /\ [][CheckerNext]_checkervars /\ WF_checkervars(CheckerNext)

-----------------------------------------------------------------------------
CheckerTypeOK ==
  /\ footers \in [Positions -> Layouts] /\ require \in BOOLEAN
  /\ process \in 0 .. Length /\ footer \in Nat
  /\ verdict \in [Positions -> {"CredentialsUnchecked", "CredentialsApproved", "CredentialsFailed"}]
  /\ machine \in {"next", "checking", "done", "error"}
  /\ machine = "checking" =>
       /\ process < Length /\ footers[process] # NoProcess
       /\ footer < Len(footers[process]) /\ footers[process][footer + 1] \in Checked

Has(s, kind) == \E k \in 1 .. Len(footers[s]) : footers[s][k] = kind

\* A verdict is the process's own: approval comes from a credential of that
\* process the policy accepted, or from a policy that does not require any, and
\* failure from a credential that was rejected or from one that was required.
VerdictsGrounded ==
  CheckerTypeOK /\ \A s \in Positions :
    /\ verdict[s] # "CredentialsUnchecked" => footers[s] # NoProcess
    /\ verdict[s] = "CredentialsApproved" => Has(s, "accept") \/ ~require
    /\ verdict[s] = "CredentialsFailed" => Has(s, "reject") \/ require

\* Checking comes to an end.
Terminates == <>(machine \in {"done", "error"})

\* What the footers of a process decide, looked at in order from the first: "the
\* kernel scans the footers in order, starting at the beginning of that
\* process's footer region" (trd-appid.md).
Scan(fs, v) ==
  LET Decisive(k) == fs[k] \in {"accept", "reject", "bad"}
      First(k) == Decisive(k) /\ \A j \in 1 .. k - 1 : ~Decisive(j)
  IN  \/ \E k \in 1 .. Len(fs) : First(k) /\ fs[k] = "accept" /\ v = "CredentialsApproved"
      \/ \E k \in 1 .. Len(fs) : First(k) /\ fs[k] = "reject" /\ v = "CredentialsFailed"
      \/ (\A k \in 1 .. Len(fs) : ~Decisive(k)) /\ v = Default(require)

VerdictsFollowScan ==
  \A s \in Positions : verdict[s] # "CredentialsUnchecked" => Scan(footers[s], verdict[s])
=============================================================================
