------------------------------ MODULE AuditTrail ------------------------------
(***************************************************************************)
(* The audit log while it is read (backend/app/services/audit_service.py,  *)
(* api/v1/audit.py, and the login's own reading of it for its risk score). *)
(*                                                                         *)
(* A row has its created_at when it is flushed, and is seen by others only *)
(* from the commit: rows come into sight out of order.  Moments are        *)
(* numbered by the rows; a row that is rolled back is a moment of which    *)
(* nothing is left.                                                        *)
(***************************************************************************)
EXTENDS Integers, Sequences, FiniteSets, RiskScore

CONSTANTS
  Writer,     \* requests that write an audit row
  MaxRows,    \* bound on the rows of a behaviour
  PerPage,    \* per_page of a listing
  ExportCap,  \* per_page of an export
  Wanted,     \* the action a search is for
  Days, DayLength,       \* the period of the statistics, a day in moments
  Address, Browser, Hour \* what logins come with: kinds of address, browsers, UTC hours

\* per_page is at least 1, and so is days.
ASSUME TrailAssumption == {PerPage, ExportCap, Days, DayLength} \subseteq Nat \ {0}
ASSUME LoginAssumption == Address \subseteq Ip /\ Hour \subseteq 0 .. 23

VARIABLES
  rows,    \* the rows by created_at
  shown,   \* those committed
  writer,  \* the requests
  reader,  \* somebody who lists, searches or exports
  stats    \* a request for the statistics

trail == <<rows, shown, writer, reader, stats>>
writing == <<rows, shown, writer>>

\* browser goes into the row's details, agent into its user_agent column; new
\* remembers, for the property only, what was new or unusual about a login.
NoWriter == [at |-> "idle", row |-> 0, what |-> "none", ip |-> "none", browser |-> "none",
             agent |-> "none", risk |-> 0, new |-> {}]
NoReader == [at |-> "idle", mode |-> "list", page |-> 1, total |-> 0, base |-> {}, start |-> {},
             seen |-> {}, slid |-> FALSE]
NoStats == [at |-> "idle", now |-> 0, query |-> 0, logins |-> 0, all |-> 0]

TrailInit ==
  /\ rows = << >> /\ shown = {} /\ writer = [w \in Writer |-> NoWriter]
  /\ reader = NoReader /\ stats = NoStats

-----------------------------------------------------------------------------
(* Writing.                                                                 *)

Successes == {n \in shown : rows[n].what = "login"}
Ips == {rows[n].ip : n \in Successes} \ {"none"}
Browsers == {rows[n].browser : n \in Successes} \ {"none"}
Agents == {rows[n].agent : n \in Successes} \ {"none"}
Failures == Cardinality({n \in shown : rows[n].what = "failed"})

\* The factors an administrator is told of (docs/ADMIN.md), for a user who has
\* logged in before.
Factors == {"address", "place", "device", "hour"}
NewOf(ip, browser, utc) ==
  {f \in Factors :
     \/ f = "address" /\ Ips # {} /\ ip \notin Ips
     \/ f = "place" /\ ip = "abroad" /\ ip \notin Ips
     \/ f = "device" /\ Browsers # {} /\ browser \notin Browsers \cup {"none"}
     \/ f = "hour" /\ Night(utc)}

\* A right password: the risk, then the block the account has or gets.  The
\* row's user_agent column stays empty.
Attempt(w, ip, browser, utc, blocked) ==
  LET risk == RiskOf(Ips, Agents, Failures, ip, browser, utc) IN
  /\ writer[w].at = "idle"
  /\ writer' = [writer EXCEPT ![w] =
       [at |-> "scored", row |-> 0, ip |-> ip, browser |-> browser, agent |-> "none", risk |-> risk,
        new |-> NewOf(ip, browser, utc),
        what |-> IF blocked \/ risk >= RISK_THRESHOLD THEN "refused" ELSE "login"]]
  /\ UNCHANGED <<rows, shown, reader, stats>>

\* Any other event, a wrong password among them.
Event(w, what) ==
  /\ writer[w].at = "idle"
  /\ writer' = [writer EXCEPT ![w] = [NoWriter EXCEPT !.at = "scored", !.what = what]]
  /\ UNCHANGED <<rows, shown, reader, stats>>

\* log_event
LogEvent(w) ==
  /\ writer[w].at = "scored" /\ Len(rows) < MaxRows
  /\ rows' = Append(rows, [what |-> writer[w].what, ip |-> writer[w].ip,
                           browser |-> writer[w].browser, agent |-> writer[w].agent])
  /\ writer' = [writer EXCEPT ![w].at = "logged", ![w].row = Len(rows) + 1]
  /\ UNCHANGED <<shown, reader, stats>>

\* A wrong password is a 401, and its row is rolled back.
CommitEvent(w) ==
  /\ writer[w].at = "logged" /\ writer[w].what # "failed"
  /\ shown' = shown \cup {writer[w].row}
  /\ writer' = [writer EXCEPT ![w] = NoWriter]
  /\ UNCHANGED <<rows, reader, stats>>

UndoEvent(w) ==
  /\ writer[w].at = "logged"
  /\ writer' = [writer EXCEPT ![w] = NoWriter]
  /\ UNCHANGED <<rows, shown, reader, stats>>

-----------------------------------------------------------------------------
(* get_audit_logs: a count, a page, and for a search a filter over the page. *)

Newer(n) == Cardinality({m \in shown : m > n})
Size == IF reader.mode = "export" THEN ExportCap ELSE PerPage

\* Faulty variant: the offset is one page off.
OnPageShifted(n, page) == Newer(n) \in page * Size .. (page + 1) * Size - 1

OnPage(n, page) == Newer(n) \in (page - 1) * Size .. page * Size - 1
Match(n) == reader.mode = "search" => rows[n].what = Wanted

Ask(mode) ==
  /\ reader.at = "idle"
  /\ reader' = [NoReader EXCEPT !.at = "count", !.mode = mode, !.start = shown]
  /\ UNCHANGED <<writing, stats>>

CountRows ==
  /\ reader.at = "count"
  /\ reader' = [reader EXCEPT !.at = "select", !.total = Cardinality(shown), !.base = shown]
  /\ UNCHANGED <<writing, stats>>

\* The portal offers the next page while the total says there is one.
SelectPage ==
  LET items == {n \in shown : OnPage(n, reader.page) /\ Match(n)}
      total == IF reader.mode = "search" THEN Cardinality(items) ELSE reader.total
  IN
  /\ reader.at = "select"
  /\ reader' = IF reader.mode # "export" /\ reader.page * Size < total
               THEN [reader EXCEPT !.at = "count", !.page = @ + 1, !.seen = @ \cup items, !.base = {}]
               ELSE [reader EXCEPT !.at = "over", !.seen = @ \cup items, !.base = {},
                                   !.slid = shown # reader.base]
  /\ UNCHANGED <<writing, stats>>

-----------------------------------------------------------------------------
(* get_audit_stats: queries one after the other, each over the log as it is. *)

StartStats ==
  /\ stats.at = "idle"
  /\ stats' = [NoStats EXCEPT !.at = "trends", !.now = Len(rows) + 1]
  /\ UNCHANGED <<writing, reader>>

\* Faulty variant: a day ends with the next one's first moment.
WindowOverlapping(day) ==
  LET start == stats.now - Days * DayLength + day * DayLength IN start .. start + DayLength

Window(day) ==
  LET start == stats.now - Days * DayLength + day * DayLength IN start .. start + DayLength - 1

\* The even queries count a day's successful logins, the odd ones the others.
TrendQuery ==
  LET what == IF stats.query % 2 = 0 THEN "login" ELSE "refused" IN
  /\ stats.at = "trends"
  /\ stats' = [stats EXCEPT
       !.logins = @ + Cardinality({n \in shown \cap Window(stats.query \div 2) : rows[n].what = what}),
       !.query = @ + 1,
       !.at = IF stats.query + 1 = 2 * Days THEN "distribution" ELSE @]
  /\ UNCHANGED <<writing, reader>>

DistributionQuery ==
  /\ stats.at = "distribution"
  /\ stats' = [stats EXCEPT !.at = "over",
       !.all = Cardinality({n \in shown : /\ n >= stats.now - Days * DayLength
                                          /\ rows[n].what \in {"login", "refused"}})]
  /\ UNCHANGED <<writing, reader>>

-----------------------------------------------------------------------------

\* A login from a new address and place, with a new device and at an unusual
\* hour (20, 30, 25 and 15 in docs/ADMIN.md:165-171) reaches the threshold of
\* docs/ADMIN.md:173, at which the user and the administrators are told.  The
\* score reads the device from a column no login fills.
HighRiskAlerts == \A w \in Writer : writer[w].new = Factors => writer[w].risk >= RISK_THRESHOLD

\* Somebody who pages to the end has seen every row there was at the start,
\* unless a row came in between the count and the page of the last request.
ListComplete ==
  reader.at = "over" /\ reader.mode = "list" => reader.start \subseteq reader.seen \/ reader.slid

\* A search ends with its first page and an export is one page: what either
\* leaves out has a page of newer rows before it, matching or not.
NewestOnly ==
  reader.at = "over" /\ reader.mode # "list" =>
    \A n \in reader.start : Match(n) => n \in reader.seen \/ Newer(n) >= Size

\* The days of the statistics add up to no more logins than their own
\* distribution counts, which is taken later.
TrendsCovered == stats.at = "over" => stats.logins <= stats.all

\* The answers of the audit API, taken in several queries while rows come in,
\* hold together (get_audit_logs, get_audit_stats).
AuditAnswersHold == ListComplete /\ NewestOnly /\ TrendsCovered
=============================================================================
