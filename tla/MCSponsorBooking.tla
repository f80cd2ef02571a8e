--------------------------- MODULE MCSponsorBooking ---------------------------
(* The references of the bookings, and a rich and a poor store. *)
EXTENDS SponsorBooking, TLC

CONSTANTS s1, s2

OneRich == s1 :> 2 @@ s2 :> 0

BookingRefs == {<<"sponsor", b>> : b \in 1..NumBookings}
                 \cup {<<"sponsor-refund", b>> : b \in 1..NumBookings}
                 \cup {<<"sale", s>> : s \in Wallets}
=============================================================================
