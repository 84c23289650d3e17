---------------------------- MODULE CampaignFeed ----------------------------
(***************************************************************************)
(* From the campaign consumer to the screen.                               *)
(*                                                                         *)
(* A notification goes straight from the consumer to the RealtimeGateway   *)
(* of the same process, and from there to the browsers that are connected: *)
(* nothing keeps it for later.  The feed on the list page puts it on top   *)
(* of its lines and forgets the oldest.                                    *)
(***************************************************************************)
EXTENDS CampaignConsumer, SequencesExt

CONSTANTS
    MaxEntries, \* MAX_ENTRIES
    MaxVisits   \* bound on the times the list page is left

ASSUME MaxEntriesAssumption == MaxEntries \in Nat \ {0}

VARIABLES
    link,    \* "booting" (no socket.io server yet), "down" or "up"
    open,    \* the list page is shown
    entries, \* the lines of its feed, the newest first
    dropped, \* history: a notification came to no feed, or a feed was closed
    visits

screen == <<link, open, entries, dropped, visits>>
all == <<vars, screen>>

FeedInit ==
    /\ Init
    /\ link \in {"booting", "up"}
    /\ open = TRUE
    /\ entries = <<>>
    /\ dropped = FALSE
    /\ visits = 0

-----------------------------------------------------------------------------
(* broadcastCampaign, and the subscription of the feed.                    *)

\* slice(0, n)
Slice(lines, n) == SubSeq(lines, 1, IF Len(lines) < n THEN Len(lines) ELSE n)

\* Mutant: new lines at the bottom.
ShowBelow(line) == Slice(Append(entries, line), MaxEntries)

\* Mutant: one line too few is kept.
ShowFewer(line) == Slice(<<line>> \o entries, MaxEntries - 1)

Show(line) == Slice(<<line>> \o entries, MaxEntries)

Broadcast(e, what) ==
    /\ IF link = "up" /\ open
       THEN entries' = Show([event |-> e, kind |-> what]) /\ UNCHANGED dropped
       ELSE dropped' = TRUE /\ UNCHANGED entries
    /\ UNCHANGED <<link, open, visits>>

FeedStep(s) ==
    \/ (Claim(s) \/ Ack(s)) /\ UNCHANGED screen
    \/ NotifyAdded(s) /\ Broadcast(slot[s], "ADD")
    \/ NotifyRemoved(s) /\ Broadcast(slot[s], "REMOVE")

-----------------------------------------------------------------------------
(* Socket and page. *)

\* NestJS wires the socket.io server.
Wire ==
    /\ link = "booting"
    /\ link' = "down"
    /\ UNCHANGED <<vars, open, entries, dropped, visits>>

Connect ==
    /\ link = "down"
    /\ link' = "up"
    /\ UNCHANGED <<vars, open, entries, dropped, visits>>

Disconnect ==
    /\ link = "up"
    /\ link' = "down"
    /\ UNCHANGED <<vars, open, entries, dropped, visits>>

\* The feed is destroyed with the page.
LeaveList ==
    /\ open
    /\ visits < MaxVisits
    /\ visits' = visits + 1
    /\ open' = FALSE
    /\ entries' = <<>>
    /\ dropped' = TRUE
    /\ UNCHANGED <<vars, link>>

OpenList ==
    /\ ~open
    /\ open' = TRUE
    /\ UNCHANGED <<vars, link, entries, dropped, visits>>

FeedRestart ==
    /\ Restart
    /\ link' = "booting"
    /\ UNCHANGED <<open, entries, dropped, visits>>

-----------------------------------------------------------------------------
FeedDeliver(s, e) == Deliver(s, e) /\ UNCHANGED screen

FeedNext ==
    \/ \E e \in Events : Arrive(e) /\ UNCHANGED screen
    \/ \E s \in Slots, e \in Events : FeedDeliver(s, e)
    \/ \E s \in Slots : FeedStep(s)
    \/ \E s \in Slots : Fail(s) /\ UNCHANGED screen
    \/ FeedRestart
    \/ Wire
    \/ Connect
    \/ Disconnect
    \/ LeaveList
    \/ OpenList

\* As for CampaignConsumer; nobody has to look.
FeedSpec ==
    /\ FeedInit
    /\ [][FeedNext]_all
    /\ WF_all(\E s \in Slots, e \in Events : FeedDeliver(s, e))
    /\ \A s \in Slots : WF_all(FeedStep(s))

-----------------------------------------------------------------------------
(* Properties. *)

Lines(e) ==
    [event : {e} \cap Joined, kind : {"ADD"}]
        \cup [event : {e} \cap Left, kind : {"REMOVE"}]

(* The feed never has a line twice, although the queue delivers an event   *)
(* more than once and the gateway does not look at what it sends; of an    *)
(* event with both, the line of those who joined is the older one.         *)
EachLineOnce == \A i, j \in DOMAIN entries :
    /\ entries[i] = entries[j] => i = j
    /\ entries[i].event = entries[j].event /\ entries[i].kind = "ADD" => j <= i

(* What the consumer notified about is on the screen, or the feed is full  *)
(* of newer lines, if no query failed, the page stayed open and its socket *)
(* connected.                                                              *)
Shown == faults = 0 /\ ~dropped => \A e \in processed :
    \/ \E s \in Slots : Working(s, e)
    \/ Lines(e) \subseteq ToSet(entries)
    \/ Len(entries) = MaxEntries
=============================================================================
