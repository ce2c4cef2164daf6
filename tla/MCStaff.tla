-------------------------------- MODULE MCStaff --------------------------------
(* Staff for TLC: small inputs. *)
EXTENDS Staff, MCQueries

MCSlugs == {"teller"}
MCGranted == {"view:Role"}
MCEdits ==
    {[slug |-> "teller", adds |-> {"view:Role"}, dels |-> {}],
     [slug |-> None, adds |-> {"delete:Role"}, dels |-> {"view:User"}]}
MCHandMade == {"delete:Role"}
MCRemovable == {"delete:Role"}

\* The bodies these inputs come in: an empty list is left out.
MCText(says)  == [length |-> 6, says |-> says]
MCBody(names) == IF names = {} THEN None ELSE names

\* The pipe lets all of them through.
ASSUME EditsAccepted ==
    /\ \A slug \in Slugs :
          CreateRoleDto([name |-> MCText(slug), description |-> MCText(slug), permissions |-> Granted])
    /\ \A edit \in Edits :
          UpdateRoleDto([name |-> IF edit.slug = None THEN None ELSE MCText(edit.slug),
                         description |-> None, permissions |-> MCBody(edit.adds),
                         remove_permissions |-> MCBody(edit.dels)])

\* Bound: the client pages while admins are invited and complete their signup: the list has
\* all admins, and nothing else that is asked for adds one.
PagingApart ==
    pc # "idle" =>
        \A r \in Requests : req[r] # None => req[r].op \in {"inviteAdmin", "completeSignup"}

Symmetric == Permutations(Requests) \cup Permutations(Instances)

=============================================================================
