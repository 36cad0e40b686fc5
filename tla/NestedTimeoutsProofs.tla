------------------------ MODULE NestedTimeoutsProofs ------------------------
(***************************************************************************)
(* The two timeouts, for minutes of any length, and any number of plugins  *)
(* and pulls.                                                              *)
(***************************************************************************)
EXTENDS NestedTimeouts, TLAPS

\* Only a busy process, which was not killed so far, has a plugin, and it is one of those it
\* has not heard yet.
TimeoutInv ==
    /\ TypeOK
    /\ OrphansAreTheKubelets
    /\ plugin = "running" => process = "busy" /\ done < Calls
    /\ process = "busy" => kills < pulls

LEMMA InitTimeoutInv == Init => TimeoutInv
  BY TimeoutAssumption
  DEF Init, TimeoutInv, TypeOK, OrphansAreTheKubelets

LEMMA NextTimeoutInv == TimeoutInv /\ [Next]_vars => TimeoutInv'
<1> SUFFICES ASSUME TimeoutInv, [Next]_vars PROVE TimeoutInv'
  OBVIOUS
<1> USE TimeoutAssumption DEF TimeoutInv, TypeOK, OrphansAreTheKubelets
<1>1. CASE StartPull
  BY <1>1 DEF StartPull
<1>2. CASE RunPlugin
  BY <1>2 DEF RunPlugin
<1>3. CASE PluginAnswers
  BY <1>3 DEF PluginAnswers
<1>4. CASE PluginFails
  BY <1>4 DEF PluginFails
<1>5. CASE Expire
  BY <1>5 DEF Expire
<1>6. CASE Respond
  BY <1>6 DEF Respond
<1>7. CASE KubeletKills
  BY <1>7 DEF KubeletKills
<1>8. CASE OrphanEnds
  BY <1>8 DEF OrphanEnds
<1>9. CASE Tick
  BY <1>9 DEF Tick
<1>10. CASE UNCHANGED vars
  BY <1>10 DEF vars
<1> QED
  BY <1>1, <1>2, <1>3, <1>4, <1>5, <1>6, <1>7, <1>8, <1>9, <1>10 DEF Next

\* The state has its type; no more plugins are left behind than there were pulls
\* (dynamic.go:262-273).
THEOREM TimeoutsTypeCorrect == Spec => []TypeOK
<1>1. TimeoutInv => TypeOK
  BY DEF TimeoutInv
<1> QED
  BY <1>1, InitTimeoutInv, NextTimeoutInv, PTL DEF Spec

\* A call that ends by itself leaves no plugin behind, whatever its plugins do and however
\* long they take: there are no more left than pulls that were killed
\* (plugin_executor.go:182-193, 234-235).
THEOREM OnlyKubeletOrphans == Spec => []OrphansAreTheKubelets
<1>1. TimeoutInv => OrphansAreTheKubelets
  BY DEF TimeoutInv
<1> QED
  BY <1>1, InitTimeoutInv, NextTimeoutInv, PTL DEF Spec

=============================================================================
