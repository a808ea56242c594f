------------------------------ MODULE MCFeeds ------------------------------
(***************************************************************************)
(* What must eventually happen on a tab, for TLC: one behaviour is about   *)
(* the fleet's lists and their socket, the panel of a job, or signing in,  *)
(* as `feed' says; the others stay as they are first.                      *)
(***************************************************************************)
EXTENDS FleetFeed, JobPanel, SignIn

CONSTANT Feeds  \* what the behaviours of a run are about

ASSUME FeedsAssumption == Feeds \subseteq {"fleet", "panel", "sign-in"}

VARIABLE feed

Vars == <<feed, feedVars, panelVars, signVars>>

Init ==
    /\ feed \in Feeds /\ FeedInit /\ PanelInit /\ SignInit
    /\ feed # "sign-in" => live = {} /\ cookie = NoOne

\* The step of a component, as one of the whole.
OfFleet(A) == feed = "fleet" /\ A /\ UNCHANGED <<feed, panelVars, signVars>>
OfPanel(A) == feed = "panel" /\ A /\ UNCHANGED <<feed, feedVars, signVars>>
OfSignIn(A) == feed = "sign-in" /\ A /\ UNCHANGED <<feed, feedVars, panelVars>>

Next == OfFleet(FeedNext) \/ OfPanel(PanelNext) \/ OfSignIn(SignNext)

\* Requests are answered or fail, timers fire, an outage ends.  A refresh cuts
\* off the fetch under way, but they come a gap apart, or by hand: they do not
\* cut off every answer for ever.
FeedFairness ==
    /\ \A q \in Lists :
          /\ WF_Vars(OfFleet(ServerAnswers(q))) /\ WF_Vars(OfFleet(ListFails(q)))
          /\ WF_Vars(OfFleet(Poll(q))) /\ SF_Vars(OfFleet(ListArrives(q)))
    /\ WF_Vars(OfFleet(LoadStarts)) /\ WF_Vars(OfFleet(GapPasses))
    /\ WF_Vars(OfFleet(SocketOpens)) /\ WF_Vars(OfFleet(SocketRetries)) /\ WF_Vars(OfFleet(ComesUp))

\* Every job ends (ActionRunner's JobEnds), the event loop goes on from await
\* to await, what is on the wire arrives, the backoff runs out, and React runs
\* its effects.
PanelFairness ==
    /\ \A j \in Job : WF_Vars(OfPanel(JobStops(j))) /\ WF_Vars(OfPanel(Publish(j)))
    /\ WF_Vars(OfPanel(SocketUp)) /\ WF_Vars(OfPanel(SocketReads)) /\ WF_Vars(OfPanel(Subscribe))
    /\ WF_Vars(OfPanel(Receive)) /\ WF_Vars(OfPanel(PanelRetries))
    /\ WF_Vars(OfPanel(Rewatch)) /\ WF_Vars(OfPanel(PanelEffects))

\* A request is answered or lost, its answer is handled, the query of an
\* enabled observer runs, animations end.  The effect that starts the exit
\* runs in the very commit that renders `ready`, so it cannot be overtaken
\* for ever by accounts that come and go: strong fairness.
SignFairness ==
    /\ \A s \in Slot : WF_Vars(OfSignIn(Answer(s) \/ Lose(s))) /\ WF_Vars(OfSignIn(Arrive(s)))
    /\ WF_Vars(OfSignIn(Load)) /\ WF_Vars(OfSignIn(IntroEnds))
    /\ SF_Vars(OfSignIn(BootLeaves)) /\ WF_Vars(OfSignIn(BootEnds))

Spec == Init /\ [][Next]_Vars /\ FeedFairness /\ PanelFairness /\ SignFairness

\* TabComesThrough (SignIn), of the behaviours that are about it.
TabHandsOver == feed = "sign-in" => TabComesThrough
=============================================================================
