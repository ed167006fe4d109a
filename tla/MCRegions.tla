------------------------------ MODULE MCRegions ------------------------------
EXTENDS Regions, TLC

CONSTANTS ra, rb

\* Two entries; one entry, an event for the regions, and a Reset; two entries and a Reset.
TwoVisits == {Plain("Go", 1), Plain("Go", 2)}
OneVisit == {Plain("Go", 1), Plain("Work", 1), Plain("Reset", 1)}
WithReset == TwoVisits \cup {Plain("Reset", 1)}
=============================================================================
