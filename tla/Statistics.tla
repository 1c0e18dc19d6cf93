------------------------------- MODULE Statistics -------------------------------
(***************************************************************************)
(* The figures that are counted and then kept in Redis for 300 s: the      *)
(* statistics of certifications (CertificationService.getStats), of        *)
(* notifications (NotificationService.getStats) and the dashboard of the   *)
(* super-admin (DashboardService).  All three ask the copy, run several    *)
(* queries, and store what came back.  The queries of one call run on      *)
(* connections of their own and see the tables at moments of their own;    *)
(* nothing that changes the tables evicts the copy.                        *)
(*                                                                         *)
(* The tables are a number, how often they have changed.                   *)
(***************************************************************************)
EXTENDS Naturals

CONSTANTS
    StatisticsCalls,  \* the calls in flight at one time
    Queries,          \* the queries of one call
    MaxChanges,       \* bound: how often the tables change
    NoFigures         \* no copy, no answer yet

ASSUME StatisticsAssumption == MaxChanges \in Nat

VARIABLES
    changes,          \* how often the tables have changed
    figures,          \* the copy
    statisticsCall    \* per call: step, and per query what it saw

statisticsVars == <<changes, figures, statisticsCall>>

Answers == [Queries -> (0..MaxChanges) \cup {NoFigures}]
NoAnswers == [q \in Queries |-> NoFigures]

Figures == [seen : Answers, expires : BOOLEAN]

StatisticsCall ==
    [step : {"idle", "count", "store"}, seen : Answers]

StatisticsInit ==
    /\ changes = 0
    /\ figures = NoFigures
    /\ statisticsCall = [c \in StatisticsCalls |->
           [step |-> "idle", seen |-> NoAnswers]]

\* Any decision, registration, result or notification.
TablesChange ==
    /\ changes < MaxChanges
    /\ changes' = changes + 1
    /\ UNCHANGED <<figures, statisticsCall>>

\* The copy, if there is one, is the answer.
LookUpFigures(c) ==
    /\ statisticsCall[c].step = "idle"
    /\ figures = NoFigures
    /\ statisticsCall' = [statisticsCall EXCEPT ![c] =
           [step |-> "count", seen |-> NoAnswers]]
    /\ UNCHANGED <<changes, figures>>

\* One of the queries; the answer is stored when all of them are back.
Count(c, q) ==
    LET seen == [statisticsCall[c].seen EXCEPT ![q] = changes]
    IN /\ statisticsCall[c].step = "count"
       /\ statisticsCall[c].seen[q] = NoFigures
       /\ statisticsCall' = [statisticsCall EXCEPT ![c].seen = seen,
              ![c].step = IF \E p \in Queries : seen[p] = NoFigures THEN @ ELSE "store"]
       /\ UNCHANGED <<changes, figures>>

StoreFigures(c) ==
    /\ statisticsCall[c].step = "store"
    /\ figures' = [seen |-> statisticsCall[c].seen, expires |-> TRUE]
    /\ statisticsCall' = [statisticsCall EXCEPT ![c].step = "idle"]
    /\ UNCHANGED changes

FailStatistics(c) ==
    /\ statisticsCall[c].step # "idle"
    /\ statisticsCall' = [statisticsCall EXCEPT ![c].step = "idle"]
    /\ UNCHANGED <<changes, figures>>

ExpireFigures ==
    /\ figures # NoFigures /\ figures.expires
    /\ figures' = NoFigures
    /\ UNCHANGED <<changes, statisticsCall>>

AdvanceStatistics(c) == StoreFigures(c) \/ \E q \in Queries : Count(c, q)

StatisticsNext ==
    \/ TablesChange
    \/ \E c \in StatisticsCalls :
           LookUpFigures(c) \/ AdvanceStatistics(c) \/ FailStatistics(c)
    \/ ExpireFigures

StatisticsFairness ==
    /\ \A c \in StatisticsCalls : WF_statisticsVars(AdvanceStatistics(c))
    /\ WF_statisticsVars(ExpireFigures)

-----------------------------------------------------------------------------

\* Type invariant.
StatisticsTypeOK ==
    /\ changes \in 0..MaxChanges
    /\ figures \in Figures \cup {NoFigures}
    /\ statisticsCall \in [StatisticsCalls -> StatisticsCall]

\* No copy, or one counted after the last change.
FiguresFresh == figures = NoFigures \/ \A q \in Queries : figures.seen[q] = changes
=============================================================================
