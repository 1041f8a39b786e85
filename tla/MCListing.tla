-------------------------------- MODULE MCListing --------------------------------
EXTENDS Listing, TLC

CONSTANTS u1, u2

\* No filter, which for u2 becomes one on the owner, and one on assignee and
\* status together.
MCFilters == {NoFilter, [NoFilter EXCEPT !.assignee = u2, !.status = Pending]}

Symmetry == Permutations(Task)
=============================================================================
