----------------------------- MODULE MCRoundtable -----------------------------
\* Instances of Roundtable for TLC.
EXTENDS Roundtable

\* Two experts at 75 and 98 are near enough, at 75 and 100 not; from 98 to 100 is a move within the
\* limit.
TwoExperts == <<"interviewer", "culture_fit">>
General == [interviewer |-> 50, culture_fit |-> 30, stability_analyzer |-> 20]

\* None; one expert heard with the analyzer; an unknown name, no weight, no number.
SomeOverrides ==
  {<<>>, [culture_fit |-> 2, stability_analyzer |-> 1], [leadership |-> 1],
   [interviewer |-> 0], [culture_fit |-> NoNumber, interviewer |-> 1]}

Job(s, e) == [start |-> s, end |-> e]

\* None, a gap, a job inside another, jobs out of order, three in three years, one without dates,
\* one that has only begun, one within a year, one that lasts while another begins.
SomeHistories ==
  {<<>>, <<Job(2010, 2012), Job(2014, 2016)>>,
   <<Job(2010, 2020), Job(2012, 2013), Job(2018, 2021)>>, <<Job(2012, 2014), Job(2016, 2018), Job(2014, 2016)>>,
   <<Job(2017, 2018), Job(2018, 2019), Job(2019, 2020)>>, <<Job(0, 0), Job(2019, 2020)>>,
   <<Job(2026, 0)>>, <<Job(2010, 2010), Job(2014, 2016)>>, <<Job(2020, 0), Job(2027, 2028)>>}
=============================================================================
