---------------------------- MODULE MCPlanEdit ----------------------------
EXTENDS PlanEdit

MCPin == <<1, 0, 0, 0>>
MCTorn == -1
MCNoRow == -2
MCNear == {MCNoRow, 1}

\* The selector starts at sel, its list goes round or ends; numbers move by one or by grid.
Page(sel, linked, wraps, grid, named) ==
  [sel |-> sel, prog |-> [v \in Values |-> IF linked THEN (v + 1) % (Top + 1) ELSE 0], linked |-> linked,
   wraps |-> wraps, grid |-> grid, named |-> named]
Scheduler == Page(0, TRUE, TRUE, 1, TRUE)
Bounded == Page(2, FALSE, FALSE, 1, FALSE)
Coarse == Page(0, FALSE, TRUE, 2, TRUE)

Step(kind, key, exp) == [kind |-> kind, key |-> key, times |-> 1, pin |-> FALSE, target |-> 2, exp |-> exp]
Direct == <<Step("press", "ENTER", "value")>>
Gated == <<Step("seek", "DOWN", "menu"), Step("menu", NoKey, "menu"),
           [Step("press", "ENTER", "value") EXCEPT !.pin = TRUE]>>

O(field, target) == [field |-> field, num |-> field = 2, target |-> target]
Ask(ops) == [times |-> 1, sweep |-> FALSE, expected |-> 0, clamp |-> Values, ops |-> ops]
Get == Ask(<<O(1, MCNoRow)>>)
Sweeps == [Get EXCEPT !.sweep = TRUE, !.expected = 2]

V(page, way, request) == [page |-> page, route |-> way, req |-> request]
Twice(visit) == [visit EXCEPT !.req.times = 2]

MCVisits == {V(Scheduler, Direct, Ask(<<O(1, 1), O(2, 1)>>)), V(Scheduler, Direct, Sweeps),
             V(Scheduler, Gated, Ask(<<O(1, 1)>>)), V(Bounded, Direct, Ask(<<O(1, 0)>>)),
             V(Bounded, Direct, Get), Twice(V(Bounded, Direct, Sweeps)), V(Coarse, Direct, Ask(<<O(2, 1)>>))}
=============================================================================
