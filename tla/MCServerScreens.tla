-------------------------- MODULE MCServerScreens --------------------------
(* A server A (1) and two clients B (2) and C (3); a proxy may present      *)
(* itself as B twice.  B and C share A's right edge, C is also above A.     *)
EXTENDS ServerScreens, TLC
CONSTANTS b1, b2, c1, s1, s2

MCWireName == (b1 :> 2) @@ (b2 :> 2) @@ (c1 :> 3)

To(m) == [k \in Slots |-> m]
MCLink == [n \in Names |->
    CASE n = 1 -> [left |-> To(0), right |-> (s1 :> 2) @@ (s2 :> 3), top |-> To(3), bottom |-> To(0)]
      [] n = 2 -> [left |-> To(1), right |-> To(3), top |-> To(0), bottom |-> To(0)]
      [] OTHER -> [left |-> To(1), right |-> To(0), top |-> To(0), bottom |-> To(1)]]

Full  == [canon |-> [n \in Names |-> n], link |-> MCLink,
          wait |-> "on", tap |-> "off", noLock |-> "off", relative |-> "on"]
Tap   == [Full EXCEPT !.wait = "off", !.tap = "on", !.relative = "off"]
Small == [Full EXCEPT !.canon = [@ EXCEPT ![3] = 0],
                      !.link[1].right = To(2), !.link[1].top = To(0), !.link[2].right = To(0),
                      !.link[3] = [d \in Dirs |-> To(0)],
                      !.wait = "absent", !.tap = "absent", !.noLock = "on"]

MCConfigs == {Full, Tap, Small}
=============================================================================
