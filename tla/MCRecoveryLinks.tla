--------------------------- MODULE MCRecoveryLinks ---------------------------
(***************************************************************************)
(* A journal whose records appear in any order and disappear again (the    *)
(* store prunes, an owner archives), over which the chain operators are    *)
(* compared with what they promise.  Records are arbitrary: the comment on *)
(* RecoveryRoot asks it to fail closed for missing and ambiguous linkage.  *)
(***************************************************************************)
EXTENDS RecoveryLinks

CONSTANTS Ids, Targets, Actions

VARIABLE links

Link == [parent : Ids \cup {NoOp}, target : Targets, action : Actions]

Init == links = [x \in {} |-> NoOp]

Record(id, l) ==
  /\ id \notin DOMAIN links
  /\ links' = [x \in DOMAIN links \cup {id} |-> IF x = id THEN l ELSE links[x]]

Remove(id) ==
  /\ id \in DOMAIN links
  /\ links' = [x \in DOMAIN links \ {id} |-> links[x]]

Next == \E id \in Ids : Remove(id) \/ \E l \in Link : Record(id, l)

Spec == Init /\ [][Next]_links

-----------------------------------------------------------------------------

\* The ancestors of id, id included, as the least set closed under parent.
Ancestry(id) ==
  {x \in DOMAIN links :
     \A S \in SUBSET DOMAIN links :
        /\ id \in S
        /\ \A y \in S : links[y].parent \in DOMAIN links => links[y].parent \in S
        => x \in S}

\* RecoveryRoot computes the unique unlinked ancestor exactly when every
\* ancestor is soundly linked, and refuses otherwise (domain/recovery.go:21-48,
\* whose loop stops at the first missing, repeated or crossing link).
RootIsTheUnlinkedAncestor ==
  \A id \in DOMAIN links :
    LET roots == {x \in Ancestry(id) : links[x].parent = NoOp}
        sound == \A x \in Ancestry(id) : Linked(links, x)
    IN  RecoveryRoot(links, id)
          = IF sound /\ roots # {} THEN CHOOSE x \in roots : TRUE ELSE NoOp

\* Chains never merge: two chains are equal or disjoint, every member of a
\* chain leads to it, and a chain has one target ("malformed links and
\* unrelated fences are not merged", docs/ARCHITECTURE.md:122).
ChainsPartitionTheJournal ==
  \A a, b \in DOMAIN links :
    LET A == RecoveryChain(links, a)
        B == RecoveryChain(links, b)
    IN  /\ b \in A => B = A
        /\ A = B \/ A \cap B = {}
        /\ \A x \in A : links[x].target = links[a].target

\* A record added later never moves an operation that already has a chain to
\* another one, so a fence cannot be settled through a chain it was not in.
LaterRecordsKeepRoots ==
  [][\A id \in DOMAIN links :
       /\ DOMAIN links \subseteq DOMAIN links'
       /\ RecoveryRoot(links, id) # NoOp
       => RecoveryRoot(links', id) = RecoveryRoot(links, id)]_links

=============================================================================
