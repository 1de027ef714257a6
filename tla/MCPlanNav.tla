---------------------------- MODULE MCPlanNav ----------------------------
EXTENDS PlanNav

\* One digit is typed and the thousands are skipped.
MCPin == <<1, 0, 0, 0>>

Step(kind, key) == [kind |-> kind, key |-> key, span |-> 1, target |-> 2, wraps |-> TRUE,
                    exp |-> TRUE, emit |-> FALSE, walk |-> 0]

\* Into a menu and through a gate; and a landing page with a walk from it.
Menus == <<Step("press", "ENTER"), Step("menu", NoKey), [Step("gate", "ENTER") EXCEPT !.emit = TRUE]>>
Walks == <<[Step("emit", NoKey) EXCEPT !.emit = TRUE], [Step("press", "DOWN") EXCEPT !.walk = 2, !.emit = TRUE]>>
Seeks == <<[Step("seek", "DOWN") EXCEPT !.exp = FALSE], Step("band", NoKey)>>

MCRoutes == {Menus, Walks, Seeks}
AnyRoutes == MCRoutes \cup {<<>>}
Short == {<<Step("press", "ENTER")>>}
=============================================================================
