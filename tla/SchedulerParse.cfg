\* Every phrase shape against three clock readings, one of them equal to a
\* mentioned time and one on the day before datetime.max.
CONSTANTS
    Nows = {480, 840, 2000}
    MaxMinute = 2879
    Hours = {8, 14, 24}
    Nums = {0, 30, 3000}
    MaxEvents = 1
SPECIFICATION Spec
INVARIANT TypeOK
INVARIANT ParseFollowsSpec
