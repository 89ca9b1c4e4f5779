SPECIFICATION BoxSpec
CONSTANTS
    p = p
    p1 = p1
    q = q
    Blank = Blank
    Words = {Blank, p, p1, q}
    BoxTools = {"http", "sip"}
    Size = 2
    Offers <- MCOffers
INVARIANTS OneAnswer OfferIsCurrent
