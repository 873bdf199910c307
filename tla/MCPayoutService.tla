--------------------------- MODULE MCPayoutService ---------------------------
(***************************************************************************)
(* Small instances of PayoutService for TLC.                               *)
(***************************************************************************)
EXTENDS PayoutProperties, TLC

CONSTANTS p1, p2, p3, k1, k2, cardBody, cryptoBody, wireBody

(***************************************************************************)
(* A request body for each rail, and one for a rail the schema does not    *)
(* know.                                                                   *)
(***************************************************************************)
MCRailOf ==
    (cardBody :> "card" @@ cryptoBody :> "crypto" @@ wireBody :> "wire")

RailsOf(bodies) == [b \in bodies |-> MCRailOf[b]]

HashesOf(bodies) == [b \in bodies |-> <<"sha256", b>>]

Entry(p, active) == [provider |-> p, active |-> active]

(***************************************************************************)
(* The local configuration of deploy/: Stripe, then mock_card.             *)
(***************************************************************************)
LocalRegistry ==
    [card   |-> <<Entry("stripe", TRUE), Entry("mock_card", TRUE)>>,
     crypto |-> <<Entry("crypto_sim", TRUE)>>]

(***************************************************************************)
(* The same without the provider the schema refuses, mock_card inactive.   *)
(***************************************************************************)
StripeRegistry ==
    [card   |-> <<Entry("mock_card", FALSE), Entry("stripe", TRUE)>>,
     crypto |-> <<Entry("crypto_sim", TRUE)>>]

(***************************************************************************)
(* Only providers the schema accepts are active, none on the crypto rail.  *)
(***************************************************************************)
NoCryptoRegistry ==
    [card   |-> <<Entry("mock_card", FALSE), Entry("stripe", TRUE)>>,
     crypto |-> <<Entry("crypto_sim", FALSE)>>]

(***************************************************************************)
(* The local configuration without an active provider on the crypto rail.  *)
(***************************************************************************)
CardRegistry ==
    [card   |-> <<Entry("stripe", TRUE), Entry("mock_card", TRUE)>>,
     crypto |-> <<Entry("crypto_sim", FALSE)>>]

TwoRails == {cardBody, cryptoBody}
AllRails == {cardBody, cryptoBody, wireBody}

RailOfTwoRails == RailsOf(TwoRails)
RailOfAllRails == RailsOf(AllRails)
HashOfTwoRails == HashesOf(TwoRails)
HashOfAllRails == HashesOf(AllRails)

NoFaults == {}
AnswerLost == {"unknown"}
LostAndCrash == {"unknown", "crash"}
AllFaults == Fault

(***************************************************************************)
(* Nothing tells payouts or keys apart.                                    *)
(***************************************************************************)
PayoutSymmetry == Permutations(PayoutIDs) \cup Permutations(Keys)

=============================================================================
