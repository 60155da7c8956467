------------------------- MODULE MCCampaignDispatch -------------------------
(* A small instance of CampaignDispatch for TLC: a template of one         *)
(* indicator, given by default to the first of two units, one period.      *)
EXTENDS CampaignDispatch, TLC

CONSTANTS o1, o2, i1, t1
MCOrgs == {o1, o2}
MCIndicators == {i1}
MCTitles == {}
MCAttributes == {t1}
MCTemplateScope == {<<o1, i1>>}

\* Requests are interchangeable.
MCSymmetry == Permutations(Requests)
=============================================================================
