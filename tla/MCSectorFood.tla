---------------------------- MODULE MCSectorFood ----------------------------
EXTENDS SectorFood

\* One inner sector, 4, with the edge sector 3 to its left, below x = 300.  The
\* third spot lies in sector 3, but a part at the first may drop its food there
\* into the list of sector 4.  From the first spot the second is out of reach
\* although it is next in x, and hides the third, which is in reach.
MCSpots == {<<310, 450>>, <<300, 380>>, <<295, 435>>}
MCVisible == {4}
=============================================================================
