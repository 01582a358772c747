---------------------------- MODULE MCRandomize ----------------------------
EXTENDS Randomize

MCFields == {"x", "u", "v"}
MCValues == <<0, 1>>
MCUnique == <<"u", "v", "x">>

All == [MCFields -> {0, 1}]
Site(base, branch, disc, softs, free, goals) ==
  [base |-> base, branch |-> branch, disc |-> disc, softs |-> softs,
   free |-> free, goals |-> goals]

\* steered: a soft constraint keeps half of the goals out of reach for good;
\* the histories keep the others out of reach for a while.
\* tied: x is pinned, the second soft constraint conflicts with the first, and
\* u and v run out of unused values together, after x.  when: every value of the
\* discriminator x has a solution.  none: no solution.
MCSites ==
  [steered |-> Site(All, All, {}, <<{t \in All : t["x"] = 0}>>, MCFields, <<"x", "u">>),
   tied |-> Site({t \in All : t["x"] = 0 /\ t["u"] = t["v"]}, All, {},
                 <<{t \in All : t["v"] = 1}, {t \in All : t["u"] = 0}>>,
                 {"u", "v"}, <<>>),
   when |-> Site(All, {t \in All : t["x"] = 1 => t["u"] = t["v"]}, {"x"}, <<>>,
                 MCFields, <<>>),
   none |-> Site({}, All, {}, <<>>, MCFields, <<>>)]
=============================================================================
