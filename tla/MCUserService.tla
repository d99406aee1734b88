--------------------------- MODULE MCUserService ---------------------------
EXTENDS UserService
MCLoaders == <<{"l1"}, {"l2", "l3"}>>
MCWriters == <<{"w1"}, {"w2"}>>
MCKnown == {150, 250, 350, 550}
MCFriendships == {<<150, 350>>, <<250, 350>>, <<550, 86900>>}
MCClock == {400, 86900}
=============================================================================
