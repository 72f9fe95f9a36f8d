----------------------------- MODULE UplinkHistory -----------------------------
(***************************************************************************)
(* UplinkEngine with an observer of the kernel's table.                    *)
(***************************************************************************)
EXTENDS UplinkEngine

VARIABLE calm  \* no DHCP client wrote since the apply in progress began

historyVars == <<vars, calm>>

BeginsNow == io' # io \/ (job.todo = {} /\ job' # job)

HistoryInit == Init /\ calm = TRUE

HistoryNext ==
    /\ Next
    /\ calm' = (foreign' = foreign /\ (BeginsNow \/ calm))

HistorySpec == HistoryInit /\ [][HistoryNext]_historyVars
FairHistorySpec == HistorySpec /\ Fairness

\* A step of nixnetd that nothing else got in the way of.
Undisturbed == calm /\ foreign' = foreign

-----------------------------------------------------------------------------
\* "The box is never even momentarily left without a default route"
\* (src/publish/route.rs): no command of an apply, failed and timed-out ones
\* included, takes the last default route of the host away.
NeverWithoutDefault ==
    [][Undisturbed /\ table # {} => table' # {}]_historyVars

\* "Never creates a default route where there was none": no command gives a
\* default route to an interface that has none.
OnlyMovesRoutes ==
    [][Undisturbed =>
         \A d \in Devices : DefaultsOf(d) = {} => DefaultsOf(d)' = {}]_historyVars

\* TF-3: when an apply is through and nothing failed, each interface of the
\* group is at a metric of its own, and the winner's is the cheapest.  An
\* interface may keep several routes there: one that sat at the metric already,
\* through another gateway, is not deleted (route.rs:262).
RankedAfterApply ==
    calm /\ job.todo = {} /\ ~job.failed =>
        \A g \in job.group :
            LET routes == {r \in table : \E t \in Of(g) : Device[t] = r.dev}
                first == Device[grp[g].winner]
            IN  \A r, q \in routes :
                    /\ r.dev = q.dev <=> r.metric = q.metric
                    /\ r.dev = first /\ q.dev # first => r.metric < q.metric

\* TF-3 as BEHAVIORS.md words it: "nixnet does not delete the loser's route".
\* An interface that has a default route keeps one through every command.
LoserKeepsItsRoute ==
    [][Undisturbed =>
         \A d \in Devices : DefaultsOf(d) # {} => DefaultsOf(d)' # {}]_historyVars

\* "Its gateway carried over verbatim" (src/publish/route.rs): the gateway of
\* the lease an interface has now is not taken out of the table.
LeaseGatewayIsKept ==
    [][Undisturbed =>
         \A d \in Devices :
            (\E r \in DefaultsOf(d) : r.via = lease[d])
               => \E r \in table' : r.dev = d /\ r.via = lease[d]]_historyVars
=============================================================================
