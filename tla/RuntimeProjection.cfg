SPECIFICATION Spec
CONSTANTS
    Applier = {a1, a2}
    Request = {q1, q2}
    Content <- const_Content
    Declares <- const_Declares
    RetiredLimit = 1
    MaxGen = 3
SYMMETRY MCSymmetry
INVARIANTS Renewable LeasesKnown SentOnOwnGate
PROPERTIES GenerationsInOrder
