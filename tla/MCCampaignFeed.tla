--------------------------- MODULE MCCampaignFeed ---------------------------
(* An instance of CampaignFeed for TLC: one event with both kinds of       *)
(* change and one with departures only.                                    *)
EXTENDS CampaignFeed, TLC

CONSTANTS swap, leave

MCEvents == {swap, leave}
MCJoined == {swap}
MCLeft == {swap, leave}
=============================================================================
