------------------------------ MODULE MCDiscovery ------------------------------
(* Discovery for TLC: the texts and categories of an instance.              *)
EXTENDS Discovery

CONSTANTS none, typed, any, safe, largest, growth, anime

MCTexts == {none, typed}
MCRatings == {any, safe}
MCModes == {largest, growth}
MCOptions == {anime}
OneRating == {any}
OneMode == {largest}

==============================================================================
