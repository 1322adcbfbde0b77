------------------------- MODULE InterestingEvents -------------------------
(***************************************************************************)
(* LTE/interestingEvents.py: the event ids the session builder knows, and  *)
(* the lists that class them.  An id is its value; the members with a      *)
(* second name (HO_S1_EXEC_IN for HO_EXEC_S1_IN, ...) have one value.      *)
(***************************************************************************)
EXTENDS Naturals

has_value ==
    {8, 13, 29, 30, 32, 35, 1025, 1034, 1038, 1040, 1045, 1067, 1091, 2058, 2072,
     3075, 3076, 3077, 3084, 3107, 3108, 3117, 4097, 4098, 4099, 4102, 4103, 4104,
     4105, 4106, 4110, 4111, 4112, 4113, 4114, 4116, 4117, 4118, 4120, 4121, 4122,
     4123, 4124, 4125, 4126, 4134, 4138, 4139, 5146, 5147, 5172, 5173, 5193, 5202,
     5208, 5209, 5210, 5221, 5222, 5223, 5224, 5228, 5229, 5230, 5262}

isCommonEvt ==
    {4097, 4099, 4102, 4103, 4104, 4105, 4106, 4110, 4111, 4112, 4113, 4114, 4121,
     4125}

isASROnlyEvt ==
    {8, 13, 1034, 1038, 1040, 1045, 2058, 2072, 3075, 3076, 3077, 4098, 5172, 5193,
     5202}

isEBSLonlyEvt ==
    {29, 30, 32, 35, 1025, 1067, 1091, 3084, 3107, 3108, 3117, 4116, 4117, 4118, 4120,
     4122, 4123, 4124, 4126, 4134, 4138, 4139, 5146, 5147, 5173, 5208, 5209, 5210,
     5221, 5222, 5223, 5224, 5228, 5229, 5230, 5262}

isASRevt ==
    {8, 13, 1034, 1038, 1040, 1045, 2058, 2072, 3075, 3076, 3077, 4097, 4098, 4099,
     4102, 4103, 4104, 4105, 4106, 4110, 4111, 4112, 4113, 4114, 4121, 4125, 5172,
     5193, 5202}

isOpener  == {4097, 4103, 4111, 4121}
isStarter == {4105, 4106, 4113, 4121}
isEnder   == {4104, 4112, 4125}
isHo      == {4102, 4103, 4104, 4105, 4110, 4111, 4112, 4113}

isCloser == {4097, 4098, 4103, 4106, 4111, 4121}

\* The events rcInfo has an entry for; it raises for any other.  Every entry
\* has '0' for no error.
rcInfo  == {4097, 4098, 4103, 4106, 4111, 4121}
noerror == "0"

\* getPadding picks one of these.
Padding == {3075, 3076, 3077, 5172, 5193}

-----------------------------------------------------------------------------
\* The lists fit together: each event is in exactly one of the common, the
\* ASR-only and the EBS-L-only lists, as the self test looks for
\* (interestingEvents.py:433-443); the ASR list is the common and the
\* ASR-only ones; what a session is opened, ended or failed by is among the
\* ASR events; and rcInfo raises for no closer.
ASSUME ListsAgree ==
    /\ has_value = isCommonEvt \cup isASROnlyEvt \cup isEBSLonlyEvt
    /\ isCommonEvt \cap isASROnlyEvt = {}
    /\ (isCommonEvt \cup isASROnlyEvt) \cap isEBSLonlyEvt = {}
    /\ isASRevt = isCommonEvt \cup isASROnlyEvt
    /\ isOpener \cup isStarter \cup isEnder \cup isCloser \cup isHo \subseteq isASRevt
    /\ Padding \subseteq isASROnlyEvt
    /\ isCloser \subseteq rcInfo
=============================================================================
