------------------------------ MODULE BackOffice ------------------------------
(***************************************************************************)
(* What goes on behind the portal: messages, the nightly rotation of       *)
(* stored passwords, the audit log, and the password tools.  They share no *)
(* state; a behaviour follows one of them.                                 *)
(***************************************************************************)
EXTENDS MailQueue, VaultRotation, AuditTrail, PasswordTools

CONSTANT Lengths  \* lengths asked of the generator

\* GenerateRequest: 4 to 128.
ASSUME LengthsAssumption == Lengths \subseteq 4 .. 128

VARIABLES
  part,    \* which part the behaviour follows
  answer   \* the password generated last, and what was asked for

Nothing == [way |-> "none", asked |-> {}, plain |-> FALSE,
            out |-> [length |-> 0, has |-> {}, pair |-> FALSE, triple |-> FALSE, run |-> FALSE]]

vars == <<mail, vault, trail, part, answer>>

Init ==
  /\ MailInit /\ RotationInit /\ TrailInit /\ answer = Nothing
  /\ part \in {"mail", "vault", "reader", "stats", "passwords"}

\* POST /password/generate
Generate(length, asked, similar, ambiguous) ==
  \E out \in Generated(length, asked, similar, ambiguous) :
    answer' = [way |-> "generated", asked |-> asked, plain |-> ~similar /\ ~ambiguous, out |-> out]

\* The password an administrator gives, and the nightly rotation's.
GiveTemporary ==
  \E out \in Temporary :
    answer' = [way |-> "temporary", asked |-> Classes, plain |-> TRUE, out |-> out]
RotationPassword ==
  \E out \in Generated(20, Classes, FALSE, FALSE) :
    answer' = [way |-> "rotation", asked |-> Classes, plain |-> TRUE, out |-> out]

PasswordNext ==
  /\ \/ GiveTemporary \/ RotationPassword
     \/ \E length \in Lengths, more \in SUBSET {"upper", "digit", "special"}, similar, ambiguous \in BOOLEAN :
          Generate(length, more \cup {"lower"}, similar, ambiguous)
  /\ answer = Nothing

Events ==
  \E w \in Writer :
    \/ \E ip \in Address, browser \in Browser, utc \in Hour, blocked \in BOOLEAN :
         Attempt(w, ip, browser, utc, blocked)
    \/ \E what \in {"failed", "other"} : Event(w, what)
    \/ LogEvent(w) \/ CommitEvent(w) \/ UndoEvent(w)

Reads == (\E mode \in {"list", "search", "export"} : Ask(mode)) \/ CountRows \/ SelectPage
Statistics == StartStats \/ TrendQuery \/ DistributionQuery

Next ==
  /\ UNCHANGED part
  /\ \/ part = "mail" /\ MailNext /\ UNCHANGED <<vault, trail, answer>>
     \/ part = "vault" /\ RotationNext /\ UNCHANGED <<mail, trail, answer>>
     \/ part = "reader" /\ (Events \/ Reads) /\ UNCHANGED <<mail, vault, answer>>
     \/ part = "stats" /\ (Events \/ Statistics) /\ UNCHANGED <<mail, vault, answer>>
     \/ part = "passwords" /\ PasswordNext /\ UNCHANGED <<mail, vault, trail>>

\* The worker goes on.
FairSpec == Init /\ [][Next]_vars
              /\ \A m \in Message :
                   WF_mail(part = "mail" /\ Worker(m) /\ UNCHANGED <<vault, trail, part, answer>>)

-----------------------------------------------------------------------------

\* What the generator is asked for it gives: every class, unless an exclusion
\* struck one; the nightly rotation's passwords are of the highest level, as
\* are all of sixteen characters and four classes; and a temporary one, whose
\* classes are left to chance, is never below the middle level (score 40).
GeneratedStrong ==
  /\ answer.way = "generated" /\ answer.plain => answer.out.has = answer.asked
  /\ answer.way = "generated" /\ answer.plain /\ answer.asked = Classes /\ answer.out.length >= 16
       => Level(answer.out) = 4
  /\ answer.way = "rotation" => Level(answer.out) = 4
  /\ answer.way = "temporary" => Level(answer.out) >= 2
=============================================================================
