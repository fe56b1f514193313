------------------------- MODULE MCTealTicketCache --------------------------
(* Two tasks that meet over one ticket of each of the kinds teald issues. *)
EXTENDS TealTicketCache

CONSTANTS t1, t2, k1

TwoTasks == {t1, t2}
OneTask == {t1}
OneTicket == {k1}

\* One use, while time zero lasts.
Once == [managed |-> TRUE, audited |-> TRUE, uses |-> 1, ends |-> 0,
         place |-> 0, fits |-> Task]
\* Two uses of a directory, to the end of time.
Twice == [Once EXCEPT !.uses = 2, !.ends = MaxTime, !.place = Depth]
\* A preloaded directory: ticket_id 0, nothing told.
Preloaded == [Twice EXCEPT !.managed = FALSE, !.audited = FALSE,
                           !.uses = 2 * Half - 1]
\* A silent rule on a directory: numbered, and sent as unlimited.
Unlimited == [Preloaded EXCEPT !.managed = TRUE]

AllOffers == {Once, Twice, Preloaded, Unlimited}
UnlimitedOffers == {Unlimited}

=============================================================================
