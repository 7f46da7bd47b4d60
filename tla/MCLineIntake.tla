---------------------------- MODULE MCLineIntake ----------------------------
(* Instances of LineIntake for TLC. *)
EXTENDS LineIntake, TLC

CONSTANTS ann, bob, h1, h2, w1, w2

Of(l, k) == [line |-> l, kind |-> k]

\* Bodies with two events of one user, and with one of nobody before a user's.
Two == <<Of(ann, "other"), Of(ann, "other")>>
Mixed == <<Of(NoLine, "other"), Of(ann, "image")>>
AllDeliveries == {Two, Mixed}

A(q, bs, n, hs, ws, d) ==
  [queued |-> q, bodies |-> bs, deliveries |-> n, hooks |-> hs, workers |-> ws, deaths |-> d]

\* Requests of one user side by side, with a death; an event on its whole way; first
\* messages of one user and of two before two workers, with a death; a picture beside the
\* question for the newest one, before two workers; a picture, and its being read again;
\* a picture, what another user asks, and a death.
AllAgendas ==
  {A(<<>>, {Two}, 2, {h1, h2}, {}, 1),
   A(<<>>, {Mixed}, 1, {h1}, {w1}, 0),
   A(<<Of(ann, "other"), Of(ann, "other")>>, {}, 0, {}, {w1, w2}, 1),
   A(<<Of(ann, "other"), Of(bob, "other")>>, {}, 0, {}, {w1, w2}, 1),
   A(<<Of(ann, "recall"), Of(ann, "image")>>, {}, 0, {}, {w1, w2}, 0),
   A(<<Of(ann, "image"), Of(ann, "review")>>, {}, 0, {}, {w1}, 0),
   A(<<Of(ann, "image"), Of(bob, "recall")>>, {}, 0, {}, {w1}, 1)}

=============================================================================
