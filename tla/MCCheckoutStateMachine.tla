---------------------- MODULE MCCheckoutStateMachine ----------------------
(***************************************************************************)
(* Instances of CheckoutStateMachine for TLC.                              *)
(***************************************************************************)
EXTENDS CheckoutStateMachine, TLC

CONSTANTS s1, s2, c1, u1, u2, w1, w2, k1

\* One quote of an anonymous client.
OneCartOf == (s1 :> c1)
Unowned   == (s1 :> None)

\* Two quotes of two users.
TwoCartOf   == (s1 :> c1 @@ s2 :> c1)
RivalOwners == (s1 :> u1 @@ s2 :> u2)

\* The actions of the runs that are not about the length of the path.
TwoActions == {"VALIDATE_QUOTE", "CANCEL"}
ValidateOnly == {"VALIDATE_QUOTE"}

\* Idempotency records that are past their 24 hours.
NoStaleRecords == {}
YesterdaysCancel == {<<k1, "CANCEL">>}

=============================================================================
