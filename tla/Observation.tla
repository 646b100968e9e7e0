----------------------------- MODULE Observation -----------------------------
(***************************************************************************)
(* What a tick gets to see: Collect of tools/fleet/internal/fleetd/        *)
(* observe.go over the herdr client of tools/fleet/internal/herdr.         *)
(*                                                                         *)
(* Collect asks herdr for its agents, matches them with the slots of the   *)
(* ledger, and reads the screen and the hand-off of every slot that        *)
(* matches.  The status of an agent is the one at the time of the list,    *)
(* its screen comes from a later call.  Any single failure makes the       *)
(* observation incomplete; a slot that does not match makes a note only.   *)
(***************************************************************************)
EXTENDS FiniteSets

CONSTANTS
    Agents,     \* identities: name, pane, tab, workspace, harness, directory, session
    NameOf,     \* NameOf[a]: the name of agent a, "" for none
    Listings,   \* the sets of agents herdr may list
    Ledgers,    \* the contents the ledger may have: sets of Slots
    ScreensOf   \* ScreensOf[a]: what agent a may look like

AllNames == {NameOf[a] : a \in Agents} \ {""}

\* A slot expects, by its pane, session, harness and directory, one agent.
Slots == [name : AllNames, agent : Agents, active : BOOLEAN, knownRepo : BOOLEAN]

\* A ledger that names two slots alike is rejected before the tick begins.
UniqueSlots(ledger) == \A s, t \in ledger : s.name = t.name => s = t

ASSUME ObservationAssumption ==
    /\ \A list \in Listings : list \subseteq Agents
    /\ \A ledger \in Ledgers : ledger \subseteq Slots /\ UniqueSlots(ledger)

\* What herdr answers to `agent list`, and how reading a hand-off ends.
Replies == {"agents", "no agents field", "no result", "no id", "error", "not JSON", "timeout"}
Handoffs == {"valid", "invalid", "missing", "not regular", "too long", "of another slot"}

\* The world a tick meets: what the machine's probes and herdr answer, whose screen
\* cannot be read, whose hand-off is not usable.  At most one thing fails at a time.
NoFault == [probes |-> TRUE, reply |-> "agents", unread |-> {}, handoff |-> "valid"]
Fault ==
    {[NoFault EXCEPT !.probes = FALSE]}
    \cup {[NoFault EXCEPT !.reply = r] : r \in Replies \ {"agents"}}
    \cup {[NoFault EXCEPT !.unread = {a}] : a \in Agents}
    \cup {[NoFault EXCEPT !.handoff = h] : h \in Handoffs \ {"valid"}}

-----------------------------------------------------------------------------
(* The herdr client *)

\* Only an envelope with an id, a result and the agents in it is a list; an error
\* is never an empty one.
Listed(reply) == reply = "agents"

-----------------------------------------------------------------------------
(* Collect *)

\* Agents without a name are passed over.
UniqueNames(list) == \A a, b \in list : NameOf[a] = NameOf[b] /\ NameOf[a] # "" => a = b

\* The slot is active, and the agent of its name is the one it expects.
Matches(slot, list) ==
    slot.active /\ slot.agent \in list /\ NameOf[slot.agent] = slot.name

Matched(list, ledger) == {s.agent : s \in {t \in ledger : t.knownRepo /\ Matches(t, list)}}

HandoffReads(handoff) == handoff = "valid"

\* Mutant: a screen that cannot be read counts as an empty one.
CompleteWithUnread(w, list, ledger) ==
    /\ w.probes /\ Listed(w.reply) /\ UniqueNames(list)
    /\ \A s \in ledger : s.knownRepo
    /\ Matched(list, ledger) # {} => HandoffReads(w.handoff)

\* Was everything there is to see seen?
Complete(w, list, ledger) ==
    /\ w.probes /\ Listed(w.reply) /\ UniqueNames(list)
    /\ \A s \in ledger : s.knownRepo
    /\ Matched(list, ledger) \cap w.unread = {}
    /\ Matched(list, ledger) # {} => HandoffReads(w.handoff)

\* What the agents in A may look like, and the evidence on them that Collect puts
\* together: the status is known from the list, an unread screen stays empty.
Looks(A) ==
    {look \in [A -> UNION {ScreensOf[a] : a \in A}] : \A a \in A : look[a] \in ScreensOf[a]}
Evidence(w, look, empty) ==
    [a \in DOMAIN look |->
       IF a \in w.unread THEN [empty EXCEPT !.status = look[a].status] ELSE look[a]]
=============================================================================
